---- MODULE Spec2Model ----
(***************************************************************************)
(* Model of the job queue with retry and dead-letter queue of the          *)
(* notification engine: Queue (queue.ts), the worker loop (worker.ts) and  *)
(* the producer and dead-letter routes of the API (index.ts); of the       *)
(* cache, the feed and the unread counter of NotificationStore (store.ts); *)
(* of EventBus (pubsub.ts) with its subscribers (subscribers.ts); of the   *)
(* SSE handler of PollingHandlers and of the Layer-5 worker.               *)
(*                                                                         *)
(* The two Redis lists are sequences whose index 1 is the head (the end    *)
(* LPUSH writes to) and whose last index is the tail (the end BRPOP pops). *)
(* Every step of the model is one Redis command together with the local    *)
(* code that runs before the next await.                                   *)
(*                                                                         *)
(* Specifications: Spec (everything interleaved), SeqSpec (dead-letter     *)
(* route calls one at a time), WorkerSpec (producer, workers and timers,   *)
(* fairly scheduled), PollSpec (WorkerSpec's steps and dequeue timeouts),  *)
(* SoloSpec (one worker process), BulkSpec (one worker process beside      *)
(* retryAllDLQ calls), FaultSpec (one worker process with rejected store   *)
(* commands and restarts), BackoffSpec (calls of getBackOffDelay),         *)
(* SoloSeqSpec (one worker process, dead-letter route calls one at a       *)
(* time), ReadSpec (the read-only calls of Queue), CacheSpec (the          *)
(* preferences routes and the cache of NotificationStore), BusSpec         *)
(* (EventBus and the subscribers of registerSubscribers), FeedSpec         *)
(* (addToFeed and getFeed of the store), UnreadSpec (the unread counter),  *)
(* NotifySpec (POST /notify), SseSpec (the SSE handler and its registry),  *)
(* OneCallSpec (workers, producer and timers beside one dead-letter route  *)
(* call at a time) and Layer5Spec (the worker that sends, then publishes). *)
(***************************************************************************)
EXTENDS Integers, Sequences, FiniteSets, Bags, TLC

\* ---------------------------------------------------------------- bounds
MaxJobs == 2        \* jobs the producer creates
NumWorkers == 2     \* worker loops
NumAdmins == 2      \* concurrent callers of the dead-letter routes
MaxCalls == 2       \* calls of the dead-letter routes
MaxTime == 2        \* readings of the clock
NumErrors == 1      \* messages the handler can throw at one failure
MaxAttemptArg == 5  \* largest attempt handed to getBackOffDelay
RandomSteps == 16   \* Math.random() returns k / RandomSteps, 0 <= k < RandomSteps
MaxRejects == 2     \* store commands the store rejects
MaxTimeouts == 2    \* dequeue calls that end by their timeout
MaxQueued == 6      \* waiting jobs the read-only calls are applied to
MaxDead == 2        \* dead jobs the read-only calls are applied to
MaxPeek == 3        \* largest count handed to peek by a direct call
NumUsers == 1       \* users whose preferences are read and written
NumClients == 2     \* concurrent callers of the preferences routes
MaxGets == 2        \* GET /prefs requests
MaxPuts == 1        \* PUT /prefs requests
MaxEvents == 2      \* events published on the bus
MaxThrows == 1      \* handler invocations that throw
MaxTicks == 1       \* milliseconds that pass while events are handled
NumCounterUsers == 2 \* users with an unread counter
NumStoreClients == 2 \* concurrent callers of the store's methods
MaxStoreCalls == 2  \* calls of addToFeed and getFeed
MaxCounterCalls == 4 \* calls of the unread counter's methods
NumProducers == 2   \* concurrent callers of POST /notify
MaxPosts == 3       \* POST /notify requests
MaxConns == 2       \* SSE connections opened
NumSseUsers == 2    \* users that open SSE connections
MaxFeedCount == 1   \* largest count of the query string of GET /feed

\* ------------------------------------------------------- program constants
DefaultMaxAttempts == 3
LRemCountOne == "1"
queueName == "notifications"
PeekCount == 5
TrimStop == -101
FeedTTL == 86400 * 30
PollFeedCount == 10
DefaultFeedCount == 20
backOffDelays == <<10000, 60000, 300000>>

Workers == 1..NumWorkers
Admins == 1..NumAdmins
JobIds == 1..MaxJobs
\* an id the producer never hands out ("does-not-exist")
UnknownId == MaxJobs + 1
\* the worker loop of a deployment that runs one worker process
Solo == 1

\* the messages the handler may throw when it fails a job for the n-th time
\* in a row: "e1" for the first failure, "e2" for the second, ...
ErrorMessage(n, k) ==
    IF k = 1 THEN "e" \o ToString(n)
    ELSE "e" \o ToString(n) \o "." \o ToString(k)

Errors(job) == {ErrorMessage(job.attempt + 1, k) : k \in 1..NumErrors}

\* an optional value: <<>> is undefined, <<v>> is v
Undefined == <<>>
Some(v) == <<v>>

VARIABLES
    queue,      \* Redis list `notifications`: serialized jobs, head first
    dlq,        \* Redis list `notifications:dlq`
    pc,         \* pc[w]: "idle" (in dequeue), "processing" (in processJob),
                \* "publishing" (in eventBus.publish of the Layer-5
                \* processJob), "backoff" (in the wait of the outer catch)
                \* or "crashed"
    wjob,       \* wjob[w]: the job worker w holds, or Undefined
    timers,     \* bag of jobs held by pending setTimeout callbacks
    nextId,     \* number of jobs created so far
    now,        \* the clock read by moveToDLQ
    apc,        \* apc[a]: position of caller a in retryFromDLQ / retryAllDLQ
    ajob,       \* ajob[a]: the job found by retryFromDLQ, or Undefined
    asnap,      \* asnap[a]: dlqJobs, the jobs retryAllDLQ read
    ares,       \* ares[a]: the call's operation, argument, `retried` counter
                \* and outcome, until the route answers
    calls,      \* number of dead-letter route calls started
    fails,      \* fails[id]: handler failures of job id since it was created
                \* or last put back by a resurrection
    delivered,  \* delivered[id]: handler successes of job id so far
    wlog,       \* wlog[w]: what the iteration in progress of worker loop w
                \* has written with console.error, oldest line first
    rejected,   \* number of store commands the store has rejected
    nulls,      \* number of dequeue calls that have returned null
    lost,       \* ids of the jobs whose retry timer was pending when the
                \* process that held it went down
    bo,         \* a call of getBackOffDelay: its argument, the value of
                \* Math.random() and, once it has returned, its result
    view,       \* the last read-only call (size, peek, getDLQ, dlqSize or
                \* GET /queue/stats): its name, peek's count, and the
                \* number and the jobs it returned
    kv,         \* the Redis string keys: kv[key] is the value, or Undefined
    db,         \* userPrefsDB: db[userId] are the user's preferences
    req,        \* req[c]: the preferences request of caller c, its position
                \* and, once answered, the preferences it answered; floor
                \* is done[userId] and warm is whether the cache held the
                \* user's preferences, both when the request arrived
    gets,       \* number of GET /prefs requests started
    puts,       \* number of PUT /prefs requests started
    computes,   \* computes[userId]: calls of computeFn for the user's key
    done,       \* done[userId]: the latest preferences whose PUT has
                \* completed, by rev
    handlers,   \* EventBus.handlers: handlers[channel] is the channel's
                \* handler array, or Undefined when the map has no entry
    listeners,  \* number of 'message' listeners on the subscriber connection
    awaiting,   \* channels whose SUBSCRIBE a subscribe call is awaiting
    subscribed, \* channels the subscriber connection is subscribed to
    registered, \* registerSubscribers has run
    published,  \* number of events published
    event,      \* the message being dispatched, or Undefined
    tasks,      \* tasks[l]: what the handlers invoked so far by listener l
                \* for this message did ("ok" or "threw"), in order
    throws,     \* number of handler invocations that threw
    unread,     \* unread[userId]: increments the unread subscriber made
    feed,       \* feed[userId]: the entries the feed subscriber added
    analytics,  \* field total of the analytics hash
    clock,      \* the clock read by addToFeed, in milliseconds
    zfeed,      \* zfeed[userId]: the Redis sorted set feed:user:<userId>,
                \* its members with their scores, lowest rank first
    fttl,       \* fttl[userId]: the time to live of that key, or Undefined
    hcounts,    \* hcounts[userId]: field user:<userId> of the Redis hash
                \* unread_counts, a string, or Undefined
    scall,      \* scall[c]: the call of the store caller c is in or has
                \* made last: method, position, arguments and result
    scalls,     \* number of calls of the store started
    incs,       \* incs[userId]: incrementUnread calls for the user whose
                \* HINCRBY has run since the last HSET of markAllRead
    server,     \* the index.ts that serves POST /notify
    post,       \* post[p]: the POST /notify request of caller p: its body,
                \* its position, the job built and the status answered
    posts,      \* number of POST /notify requests received
    sse,        \* sse[k]: connection k of GET /sse: its user, the position
                \* of sseStream, whether the connection is open, whether
                \* the 'close' listener is attached and the heartbeat runs
    sseClients, \* PollingHandlers.sseClients: sseClients[userId] is the
                \* user's array of responses, or Undefined without an entry
    wroteClosed,\* the res.write calls made on a closed connection: what
                \* was written and on which connection
    sent        \* sent[id]: channel sends of job id that succeeded (Layer 5)

\* the variables of the queue, its worker loops and its dead-letter routes
queueVars == <<queue, dlq, pc, wjob, timers, nextId, now, apc, ajob, asnap,
               ares, calls, fails, delivered, wlog, rejected, nulls, lost, bo>>

\* the variables of the read-only calls
readVars == <<view>>

\* the variables of the preferences routes and the cache
cacheVars == <<kv, db, req, gets, puts, computes, done>>

\* the variables of the event bus and its subscribers
busVars == <<handlers, listeners, awaiting, subscribed, registered, published,
             event, tasks, throws, unread, feed, analytics, clock>>

\* the variables of the feed and the unread counters of NotificationStore
storeVars == <<zfeed, fttl, hcounts, scall, scalls, incs>>

\* what the queue, its workers and its dead-letter routes never touch
\* the variables of the POST /notify route
httpVars == <<server, post, posts>>

\* the variables of the SSE handler
sseVars == <<sse, sseClients, wroteClosed>>

\* the sends of the Layer-5 worker
sendVars == <<sent>>

sideVars == <<readVars, cacheVars, busVars, storeVars, httpVars, sseVars,
              sendVars>>

vars == <<queueVars, sideVars>>

\* ------------------------------------------------------------------- Job
\* the body of the id-th POST /notify request: the channel, the user and the
\* message are the caller's choice, here one fixed choice per request
Channels == <<"email", "sms", "push">>
RequestBody(id) ==
    [userId |-> id, channel |-> Channels[((id - 1) % Len(Channels)) + 1],
     message |-> id]

\* POST /notify builds the job; createdAt, the instant of creation, is
\* represented by the ordinal of the request
NewJob(id) ==
    [id |-> id, type |-> "notification",
     channel |-> RequestBody(id).channel, userId |-> RequestBody(id).userId,
     payload |-> [message |-> RequestBody(id).message],
     createdAt |-> id, attempt |-> 0, maxAttempts |-> DefaultMaxAttempts,
     lastError |-> Undefined, failedAt |-> Undefined]

\* JSON.stringify drops the keys whose value is undefined
Stringify(job) ==
    IF job.lastError = Undefined /\ job.failedAt = Undefined
    THEN [id |-> job.id, type |-> job.type, channel |-> job.channel,
          userId |-> job.userId, payload |-> job.payload,
          createdAt |-> job.createdAt, attempt |-> job.attempt,
          maxAttempts |-> job.maxAttempts]
    ELSE IF job.failedAt = Undefined
    THEN [id |-> job.id, type |-> job.type, channel |-> job.channel,
          userId |-> job.userId, payload |-> job.payload,
          createdAt |-> job.createdAt, attempt |-> job.attempt,
          maxAttempts |-> job.maxAttempts,
          lastError |-> job.lastError[1]]
    ELSE IF job.lastError = Undefined
    THEN [id |-> job.id, type |-> job.type, channel |-> job.channel,
          userId |-> job.userId, payload |-> job.payload,
          createdAt |-> job.createdAt, attempt |-> job.attempt,
          maxAttempts |-> job.maxAttempts,
          failedAt |-> job.failedAt[1]]
    ELSE [id |-> job.id, type |-> job.type, channel |-> job.channel,
          userId |-> job.userId, payload |-> job.payload,
          createdAt |-> job.createdAt, attempt |-> job.attempt,
          maxAttempts |-> job.maxAttempts,
          lastError |-> job.lastError[1], failedAt |-> job.failedAt[1]]

\* JSON.parse: a key that is absent reads as undefined
Parse(s) ==
    [id |-> s.id, type |-> s.type, channel |-> s.channel,
     userId |-> s.userId, payload |-> s.payload, createdAt |-> s.createdAt,
     attempt |-> s.attempt, maxAttempts |-> s.maxAttempts,
     lastError |-> IF "lastError" \in DOMAIN s THEN Some(s.lastError)
                   ELSE Undefined,
     failedAt |-> IF "failedAt" \in DOMAIN s THEN Some(s.failedAt)
                  ELSE Undefined]

\* ------------------------------------------------------- Redis primitives
\* mutant: the push appends at the tail (RPUSH)
LPush_Tail(list, value) == list \o <<value>>

\* LPUSH: the value becomes the head of the list
LPush(list, value) == <<value>> \o list

Front(list) == SubSeq(list, 1, Len(list) - 1)

\* mutant: the pop takes the head element (LPOP)
BRPop_FromHead(list) == [value |-> Head(list), rest |-> Tail(list)]

\* mutant: the tail element is returned but stays in the list
BRPop_KeepsEntry(list) == [value |-> list[Len(list)], rest |-> list]

\* BRPOP on a non-empty list: the tail element and the rest
BRPop(list) == [value |-> list[Len(list)], rest |-> Front(list)]

LRange(list, start, stop) ==
    LET last == IF stop < 0 THEN Len(list) + stop + 1
                ELSE IF stop + 1 > Len(list) THEN Len(list) ELSE stop + 1
    IN  SubSeq(list, start + 1, last)

\* the integer a command argument denotes, Undefined when it is no integer
string2ll(arg) ==
    CASE arg = "1" -> Some(1)
      [] arg = "0" -> Some(0)
      [] OTHER -> Undefined

RECURSIVE RemoveFromHead(_, _, _)
RemoveFromHead(list, n, value) ==
    IF list = <<>> THEN <<>>
    ELSE IF n > 0 /\ Head(list) = value
         THEN RemoveFromHead(Tail(list), n - 1, value)
         ELSE <<Head(list)>> \o RemoveFromHead(Tail(list), n, value)

RemoveAll(list, value) == SelectSeq(list, LAMBDA s : s # value)

\* mutant: LREM empties the list
LRem_Flush(list, count, value) == [err |-> FALSE, list |-> <<>>]

\* LREM key count value: an error reply when count is not an integer
LRem(list, count, value) ==
    LET n == string2ll(count)
    IN  IF n = Undefined THEN [err |-> TRUE, list |-> list]
        ELSE IF n[1] = 0 THEN [err |-> FALSE, list |-> RemoveAll(list, value)]
        ELSE [err |-> FALSE, list |-> RemoveFromHead(list, n[1], value)]

\* -------------------------------------------------------------- Queue
\* mutant: the listing starts at the tail of the list
getDLQ_OldestFirst(list) ==
    [i \in 1..Len(list) |-> Parse(LRange(list, 0, -1)[Len(list) + 1 - i])]

\* getDLQ: lrange(dlqName, 0, -1), each item parsed
getDLQ(list) == [i \in 1..Len(list) |-> Parse(LRange(list, 0, -1)[i])]

\* LLEN
LLen(list) == Len(list)

\* dlqSize: llen(dlqName)
dlqSize(list) == LLen(list)

\* mutant: the predicate of find is always true (j.id = jobId)
Find_First(jobs, jobId) ==
    IF jobs = <<>> THEN Undefined ELSE Some(Head(jobs))

\* Array.prototype.find: the first element with that id, or Undefined
RECURSIVE Find(_, _)
Find(jobs, jobId) ==
    IF jobs = <<>> THEN Undefined
    ELSE IF Head(jobs).id = jobId THEN Some(Head(jobs))
    ELSE Find(Tail(jobs), jobId)

\* mutant: dead-letters when attempt >= maxAttempts
requestForRetry_AtLeast(job, error) ==
    LET j == [job EXCEPT !.attempt = job.attempt + 1,
                         !.lastError = Some(error)]
    IN  [job |-> j, toDLQ |-> j.attempt >= j.maxAttempts]

\* mutant: attempt is incremented twice
requestForRetry_DoubleIncrement(job, error) ==
    LET j == [job EXCEPT !.attempt = job.attempt + 2,
                         !.lastError = Some(error)]
    IN  [job |-> j, toDLQ |-> j.attempt > j.maxAttempts]

\* mutant: one retry more than maxAttempts
requestForRetry_ExtraRetry(job, error) ==
    LET j == [job EXCEPT !.attempt = job.attempt + 1,
                         !.lastError = Some(error)]
    IN  [job |-> j, toDLQ |-> j.attempt > j.maxAttempts + 1]

\* mutant: lastError keeps the message of the job's first failure
requestForRetry_FirstError(job, error) ==
    LET j == [job EXCEPT !.attempt = job.attempt + 1,
                         !.lastError = IF @ = Undefined THEN Some(error)
                                       ELSE @]
    IN  [job |-> j, toDLQ |-> j.attempt > j.maxAttempts]

\* mutant: the attempt is not incremented
requestForRetry_NoIncrement(job, error) ==
    LET j == [job EXCEPT !.lastError = Some(error)]
    IN  [job |-> j, toDLQ |-> j.attempt > j.maxAttempts]

\* the synchronous head of requestForRetry: the mutated job and the branch
requestForRetry(job, error) ==
    LET j == [job EXCEPT !.attempt = job.attempt + 1,
                         !.lastError = Some(error)]
    IN  [job |-> j, toDLQ |-> j.attempt > j.maxAttempts]

\* mutant: failedAt is not set
moveToDLQ_NoFailedAt(job, t) == job

\* mutant: the dead-letter transition also overwrites createdAt
moveToDLQ_StampsCreatedAt(job, t) ==
    [job EXCEPT !.failedAt = Some(t), !.createdAt = t]

\* moveToDLQ before its lpush: failedAt = new Date().toISOString()
moveToDLQ(job, t) == [job EXCEPT !.failedAt = Some(t)]

\* mutant: the reset leaves failedAt in place
Reset_KeepsFailedAt(job) ==
    [job EXCEPT !.attempt = 0, !.lastError = Undefined]

\* the reset of retryFromDLQ and retryAllDLQ
Reset(job) ==
    [job EXCEPT !.attempt = 0, !.lastError = Undefined,
                !.failedAt = Undefined]

\* Math.min
Min(a, b) == IF a < b THEN a ELSE b

\* Math.floor of the fraction num / den, den > 0
Floor(num, den) == num \div den

\* mutant: a jitter of 30% of the base delay
getBackOffDelay_WideJitter(attempt, random) ==
    LET index == Min(attempt - 1, Len(backOffDelays) - 1)
        baseDelay == backOffDelays[index + 1]
        jitter == (baseDelay * 3) \div 10
    IN  baseDelay
          + Floor(random * jitter * 2 - jitter * RandomSteps, RandomSteps)

\* getBackOffDelay(attempt) when Math.random() returns random / RandomSteps.
\* index counts from 0 as in the code; baseDelay * 0.2 is baseDelay * 2 / 10,
\* which is exact for every entry of backOffDelays (in IEEE doubles as well)
getBackOffDelay(attempt, random) ==
    LET index == Min(attempt - 1, Len(backOffDelays) - 1)
        baseDelay == backOffDelays[index + 1]
        jitter == (baseDelay * 2) \div 10
    IN  baseDelay
          + Floor(random * jitter * 2 - jitter * RandomSteps, RandomSteps)

\* the index getBackOffDelay computes into backOffDelays, counted from 0
BackOffIndex(attempt) == Min(attempt - 1, Len(backOffDelays) - 1)

\* the argument of the call of getBackOffDelay in requestForRetry(job, error):
\* job.attempt after the increment; Undefined when requestForRetry returns
\* from its dead-letter branch, before the call
BackOffArg(job, error) ==
    LET r == requestForRetry(job, error)
    IN  IF r.toDLQ THEN Undefined ELSE Some(r.job.attempt)

\* mutant: a dequeue that finds an entry drops it and returns null
dequeue_DropsEntry(list) == [job |-> Undefined, rest |-> Front(list)]

\* dequeue(timeout): null when BRPOP ends by its timeout, which it does only
\* when the list stays empty; otherwise the parsed tail entry
dequeue(list) ==
    IF list = <<>> THEN [job |-> Undefined, rest |-> list]
    ELSE [job |-> Some(Parse(BRPop(list).value)), rest |-> BRPop(list).rest]

\* console.error(`Job ${job.id} failed:`, errorMessage) of the inner catch
JobFailedLine(job, error) ==
    [line |-> "Job failed", id |-> job.id, error |-> error]

\* console.error('Worker error:', err) of the outer catch, err being the
\* rejection of the store command
WorkerErrorLine(command) ==
    [line |-> "Worker error", id |-> UnknownId, error |-> command]

\* ------------------------------------------------------------ ghost state
NoResult == [op |-> "none", id |-> UnknownId, ret |-> "none", count |-> 0]

\* no call of getBackOffDelay is being looked at
NoCall == [attempt |-> 0, random |-> 0, delay |-> Undefined]

\* no read-only call has returned yet
NoView == [op |-> "none", count |-> 0, size |-> 0, jobs |-> <<>>]

\* ------------------------------------------- preferences and their cache
Users == 1..NumUsers
Clients == 1..NumClients

\* `user_prefs:${userId}`, the key the routes hand to the store
PrefsKey(userId) == "user_prefs:" \o ToString(userId)

\* `cache:${key}`, the Redis key cacheSet and cacheDelete use
CacheKey(key) == "cache:" \o key

\* the Redis string keys the program names
RedisKeys ==
    {PrefsKey(u) : u \in Users} \cup {CacheKey(PrefsKey(u)) : u \in Users}

\* JSON.stringify and JSON.parse of a preferences object
StringifyPrefs(prefs) == [json |-> prefs]
ParsePrefs(s) == s.json

\* userPrefsDB at start; preferences are represented by rev, the number of
\* PUT bodies merged into them
InitialPrefs == [rev |-> 0]

\* { ...userPrefsDB[userId], ...newPrefs }: every PUT body carries a setting
\* no earlier body carried
Merge(prefs) == [prefs EXCEPT !.rev = @ + 1]

\* mutant: the read uses the key cacheSet writes
cacheGet_Prefixed(store, key) ==
    IF store[CacheKey(key)] # Undefined
    THEN Some(ParsePrefs(store[CacheKey(key)][1]))
    ELSE Undefined

\* cacheGet(key): redis.get(key), parsed when there is a value, else null
cacheGet(store, key) ==
    IF store[key] # Undefined THEN Some(ParsePrefs(store[key][1]))
    ELSE Undefined

\* cacheSet(key, value, ttl): redis.set(`cache:${key}`, JSON, 'EX', ttl)
cacheSet(store, key, value) ==
    [store EXCEPT ![CacheKey(key)] = Some(StringifyPrefs(value))]

\* cacheDelete(key): redis.del(`cache:${key}`)
cacheDelete(store, key) == [store EXCEPT ![CacheKey(key)] = Undefined]

NoRequest ==
    [op |-> "none", pc |-> "idle", userId |-> 0, value |-> Undefined,
     floor |-> 0, warm |-> FALSE]

\* no preferences request yet, an empty cache, userPrefsDB as written
CacheIdle ==
    /\ kv = [k \in RedisKeys |-> Undefined]
    /\ db = [u \in Users |-> InitialPrefs]
    /\ req = [c \in Clients |-> NoRequest]
    /\ gets = 0
    /\ puts = 0
    /\ computes = [u \in Users |-> 0]
    /\ done = [u \in Users |-> 0]

\* ------------------------------------------------- event bus, subscribers
DeliveredChannel == "notification:delivered"

\* the channels handlers are registered on
BusChannels == {DeliveredChannel}

\* the three handlers of registerSubscribers, by what they update, in the
\* order of their registration
Subscribers == <<"feed", "unread", "analytics">>

\* the event processJob publishes once it has sent job id's notification
Event(id) ==
    [type |-> DeliveredChannel, jobId |-> id, userId |-> NewJob(id).userId,
     channel |-> NewJob(id).channel, notificationType |-> NewJob(id).type]

\* JSON.stringify(event) and JSON.parse(message)
StringifyEvent(ev) == [json |-> ev]
ParseEvent(message) == message.json

\* this.handlers.size: the number of channels that have an entry
MapSize(map) == Cardinality({ch \in BusChannels : map[ch] # Undefined})

\* EventBus.subscribe(channel, handler) up to its first await, or to its end
\* when it awaits nothing. bus holds the handlers map, the number of
\* 'message' listeners installed on the subscriber connection and the
\* channels whose SUBSCRIBE has been sent and is awaited.
subscribe(bus, channel, handler) ==
    LET entry == IF bus.handlers[channel] = Undefined THEN <<>>
                 ELSE bus.handlers[channel][1]
        map == [bus.handlers EXCEPT ![channel] = Some(Append(entry, handler))]
    IN  IF Len(map[channel][1]) = 1
        THEN [handlers |-> map, listeners |-> bus.listeners,
              awaiting |-> Append(bus.awaiting, channel)]
        ELSE [handlers |-> map,
              listeners |-> IF MapSize(map) = 1 THEN bus.listeners + 1
                            ELSE bus.listeners,
              awaiting |-> bus.awaiting]

\* a subscribe call installs at most one listener
MaxListeners == Len(Subscribers)

\* no subscriber registered, nothing published
BusIdle ==
    /\ handlers = [ch \in BusChannels |-> Undefined]
    /\ listeners = 0
    /\ awaiting = <<>>
    /\ subscribed = {}
    /\ registered = FALSE
    /\ published = 0
    /\ event = Undefined
    /\ tasks = <<>>
    /\ throws = 0
    /\ unread = [u \in 1..MaxEvents |-> 0]
    /\ feed = [u \in 1..MaxEvents |-> {}]
    /\ analytics = 0
    /\ clock = 0

\* ------------------------------------- NotificationStore: feed and counters
\* the user whose feed is followed (every feed is a key of its own, read
\* and written only by the calls for its user), the users whose unread
\* counter is kept, and the callers of the store's methods (subscriber
\* invocations and route handlers)
FeedUser == 1
FeedUsers == {FeedUser}
CounterUsers == 1..NumCounterUsers
StoreClients == 1..NumStoreClients

\* JSON.stringify of a feed entry and JSON.parse of a member
StringifyEntry(entry) == [json |-> entry]
ParseEntry(member) == member.json

\* the member addToFeed writes for the notification of job id at time t
FeedMember(id, t) ==
    StringifyEntry([id |-> id, channel |-> Event(id).channel,
                    type |-> Event(id).notificationType,
                    createdAt |-> t, read |-> FALSE])

\* the order of two members as strings: they differ first in the id, then
\* in createdAt
MemberBefore(m1, m2) ==
    \/ ParseEntry(m1).id < ParseEntry(m2).id
    \/ /\ ParseEntry(m1).id = ParseEntry(m2).id
       /\ ParseEntry(m1).createdAt < ParseEntry(m2).createdAt

\* the order of a sorted set: by score, members of one score by member
RankedBefore(x, y) ==
    \/ x.score < y.score
    \/ x.score = y.score /\ MemberBefore(x.member, y.member)

\* a start or stop index of a range command: a negative one counts from
\* the end
RangeIndex(i, n) == IF i < 0 THEN n + i ELSE i

\* A sorted set is the sequence of its elements, lowest rank first.
\* ZADD key score member: a member the set already holds gets the new score
ZAdd(zset, score, member) ==
    LET rest == SelectSeq(zset, LAMBDA x : x.member # member)
        new == [member |-> member, score |-> score]
        k == Cardinality({i \in 1..Len(rest) : RankedBefore(rest[i], new)})
    IN  SubSeq(rest, 1, k) \o <<new>> \o SubSeq(rest, k + 1, Len(rest))

\* mutant: the range is counted from the highest rank
ZRemRangeByRank_Highest(zset, start, stop) ==
    LET n == Len(zset)
        lo == IF RangeIndex(start, n) < 0 THEN 0 ELSE RangeIndex(start, n)
        hi == IF RangeIndex(stop, n) > n - 1 THEN n - 1
              ELSE RangeIndex(stop, n)
    IN  IF lo > hi THEN zset
        ELSE SubSeq(zset, 1, n - hi - 1) \o SubSeq(zset, n - lo + 1, n)

\* ZREMRANGEBYRANK key start stop
ZRemRangeByRank(zset, start, stop) ==
    LET n == Len(zset)
        lo == IF RangeIndex(start, n) < 0 THEN 0 ELSE RangeIndex(start, n)
        hi == IF RangeIndex(stop, n) > n - 1 THEN n - 1
              ELSE RangeIndex(stop, n)
    IN  IF lo > hi THEN zset
        ELSE SubSeq(zset, 1, lo) \o SubSeq(zset, hi + 2, n)

\* ZREVRANGE key start stop: the members from the highest rank down
ZRevRange(zset, start, stop) ==
    LET n == Len(zset)
        lo == IF RangeIndex(start, n) < 0 THEN 0 ELSE RangeIndex(start, n)
        hi == IF RangeIndex(stop, n) > n - 1 THEN n - 1
              ELSE RangeIndex(stop, n)
    IN  IF lo > hi THEN <<>>
        ELSE [i \in 1..(hi - lo + 1) |-> zset[n - (lo + i - 1)].member]

\* the feed of a user that has received n notifications before the first
\* step, one per millisecond, the latest one millisecond before time 0
EarlierFeed(n) ==
    [i \in 1..n |-> [member |-> FeedMember(0, i - n - 1),
                     score |-> i - n - 1]]

\* a hash field holds a string: String(n), and parseInt(string, 10)
DecimalString(n) == [digits |-> n]
parseInt(string) == string.digits

\* `user:${userId}`, a field of the hash unread_counts
CounterField(userId) == userId

\* HGET key field: the string, or null
HGet(hash, field) == hash[field]

\* HSET key field value
HSet(hash, field, value) ==
    [hash EXCEPT ![field] = Some(DecimalString(value))]

\* mutant: the increment replaces the field's value
HIncrBy_Replaces(hash, field, n) ==
    [hash EXCEPT ![field] = Some(DecimalString(n))]

\* HINCRBY key field n: a field that does not exist counts as 0
HIncrBy(hash, field, n) ==
    [hash EXCEPT ![field] =
        Some(DecimalString((IF @ = Undefined THEN 0 ELSE parseInt(@[1])) + n))]

\* the number of entries addToFeed's trim keeps
FeedLimit == 0 - TrimStop - 1

\* no call of the store in progress
NoStoreCall ==
    [op |-> "none", pc |-> "idle", userId |-> 0, score |-> 0,
     value |-> Undefined, count |-> 0, result |-> Undefined]

\* empty feeds, no counter, no call of the store
StoreIdle ==
    /\ zfeed = [u \in FeedUsers |-> <<>>]
    /\ fttl = [u \in FeedUsers |-> Undefined]
    /\ hcounts = [u \in CounterUsers |-> Undefined]
    /\ scall = [c \in StoreClients |-> NoStoreCall]
    /\ scalls = 0
    /\ incs = [u \in CounterUsers |-> 0]

\* ------------------------------------------------------- POST /notify
\* the callers of POST /notify
Producers == 1..NumProducers

\* the index.ts files with the route: Layer 3 (retry and dead-letter queue)
\* and Layer 4 (the store)
Layer3 == "layer3"
Layer4 == "layer4"
Servers == {Layer3, Layer4}

\* the bodies the id-th request can have: RequestBody(id), or that body
\* without its userId, without its channel, or without both
RequestBodies(id) ==
    {[userId |-> u, channel |-> ch, message |-> RequestBody(id).message] :
        u \in {Undefined, Some(RequestBody(id).userId)},
        ch \in {Undefined, Some(RequestBody(id).channel)}}

AllBodies == UNION {RequestBodies(id) : id \in 1..(MaxJobs + 1)}

\* !userId || !channel
MissingField(body) == body.userId = Undefined \/ body.channel = Undefined

\* the status of the answer to a request whose job is enqueued:
\* res.json(...) in Layer 3, res.status(202).json(...) in Layer 4
QueuedStatus(layer) == IF layer = Layer3 THEN 200 ELSE 202

\* no request yet
NoPost == [pc |-> "idle", body |-> Undefined, job |-> Undefined, status |-> 0]

\* the Layer 3 server, no POST /notify request yet
HttpIdle ==
    /\ server = Layer3
    /\ post = [p \in Producers |-> NoPost]
    /\ posts = 0

\* ------------------------------------------------------------ GET /sse
\* the connections and the users of GET /sse
Conns == 1..MaxConns
SseUsers == 1..NumSseUsers

\* a connection nobody has opened yet
NoConn ==
    [userId |-> 0, pc |-> "none", open |-> FALSE, onClose |-> FALSE,
     heartbeat |-> FALSE]

\* this.sseClients.get(userId) || []
ClientsOf(map, userId) ==
    IF map[userId] = Undefined THEN <<>> ELSE map[userId][1]

\* clients.filter(c => c !== res)
Without(clients, res) == SelectSeq(clients, LAMBDA c : c # res)

\* no connection, an empty map
SseIdle ==
    /\ sse = [k \in Conns |-> NoConn]
    /\ sseClients = [u \in SseUsers |-> Undefined]
    /\ wroteClosed = {}

\* nothing sent yet
SendIdle == sent = [id \in JobIds |-> 0]

Init ==
    /\ queue = <<>>
    /\ dlq = <<>>
    /\ pc = [w \in Workers |-> "idle"]
    /\ wjob = [w \in Workers |-> Undefined]
    /\ timers = EmptyBag
    /\ nextId = 0
    /\ now = 1
    /\ apc = [a \in Admins |-> "idle"]
    /\ ajob = [a \in Admins |-> Undefined]
    /\ asnap = [a \in Admins |-> <<>>]
    /\ ares = [a \in Admins |-> NoResult]
    /\ calls = 0
    /\ fails = [i \in JobIds |-> 0]
    /\ delivered = [i \in JobIds |-> 0]
    /\ wlog = [w \in Workers |-> <<>>]
    /\ rejected = 0
    /\ nulls = 0
    /\ lost = {}
    /\ bo = NoCall
    /\ view = NoView
    /\ CacheIdle
    /\ BusIdle
    /\ StoreIdle
    /\ HttpIdle
    /\ SseIdle
    /\ SendIdle

\* POST /notify with a userId and a channel: one job with a fresh id
Notify ==
    /\ nextId < MaxJobs
    /\ nextId' = nextId + 1
    /\ queue' = LPush(queue, Stringify(NewJob(nextId + 1)))
    /\ UNCHANGED <<dlq, pc, wjob, timers, now, apc, ajob, asnap, ares, calls,
                   fails, delivered,
                   wlog, rejected, nulls, lost, bo, sideVars>>

\* worker loop: dequeue returns a job
Dequeue(w) ==
    /\ pc[w] = "idle"
    /\ queue # <<>>
    /\ LET r == BRPop(queue)
       IN  /\ queue' = r.rest
           /\ wjob' = [wjob EXCEPT ![w] = Some(Parse(r.value))]
    /\ pc' = [pc EXCEPT ![w] = "processing"]
    /\ UNCHANGED <<dlq, timers, nextId, now, apc, ajob, asnap, ares, calls,
                   fails, delivered,
                   wlog, rejected, nulls, lost, bo, sideVars>>

\* mutant: the success path puts the job back on the queue
HandlerSuccess_Requeues(w) ==
    /\ pc[w] = "processing"
    /\ pc' = [pc EXCEPT ![w] = "idle"]
    /\ wjob' = [wjob EXCEPT ![w] = Undefined]
    /\ delivered' = [delivered EXCEPT ![wjob[w][1].id] = @ + 1]
    /\ queue' = LPush(queue, Stringify(wjob[w][1]))
    /\ UNCHANGED <<dlq, timers, nextId, now, apc, ajob, asnap, ares,
                   calls, fails,
                   wlog, rejected, nulls, lost, bo, sideVars>>

\* worker loop: processJob returns
HandlerSuccess(w) ==
    /\ pc[w] = "processing"
    /\ pc' = [pc EXCEPT ![w] = "idle"]
    /\ wjob' = [wjob EXCEPT ![w] = Undefined]
    /\ delivered' = [delivered EXCEPT ![wjob[w][1].id] = @ + 1]
    /\ UNCHANGED <<queue, dlq, timers, nextId, now, apc, ajob, asnap, ares,
                   calls, fails,
                   wlog, rejected, nulls, lost, bo, sideVars>>

\* mutant: the failure leaves the loop, no requestForRetry
HandlerFailure_Escapes(w) ==
    /\ pc[w] = "processing"
    /\ pc' = [pc EXCEPT ![w] = "crashed"]
    /\ wjob' = [wjob EXCEPT ![w] = Undefined]
    /\ fails' = [fails EXCEPT ![wjob[w][1].id] = @ + 1]
    /\ UNCHANGED <<queue, dlq, timers, nextId, now, apc, ajob, asnap, ares,
                   calls, delivered, wlog, rejected, nulls, lost, bo,
                   sideVars>>

\* worker loop: processJob throws, the catch block calls requestForRetry
HandlerFailure(w) ==
    /\ pc[w] = "processing"
    /\ \E error \in Errors(wjob[w][1]), t \in {now, now + 1} :
         LET r == requestForRetry(wjob[w][1], error)
         IN  IF r.toDLQ
             THEN /\ t <= MaxTime
                  /\ now' = t
                  /\ dlq' = LPush(dlq, Stringify(moveToDLQ(r.job, t)))
                  /\ UNCHANGED timers
             ELSE /\ t = now
                  /\ timers' = timers (+) SetToBag({r.job})
                  /\ UNCHANGED <<dlq, now>>
    /\ pc' = [pc EXCEPT ![w] = "idle"]
    /\ wjob' = [wjob EXCEPT ![w] = Undefined]
    /\ fails' = [fails EXCEPT ![wjob[w][1].id] = @ + 1]
    /\ UNCHANGED <<queue, nextId, apc, ajob, asnap, ares, calls, delivered,
                   wlog, rejected, nulls, lost, bo, sideVars>>

\* mutant: the callback enqueues the job twice
TimerFire_Twice ==
    \E job \in BagToSet(timers) :
        /\ timers' = timers (-) SetToBag({job})
        /\ queue' = LPush(LPush(queue, Stringify(job)), Stringify(job))
        /\ UNCHANGED <<dlq, pc, wjob, nextId, now, apc, ajob, asnap, ares,
                       calls, fails, delivered, wlog, rejected, nulls, lost,
                       bo, sideVars>>

\* the setTimeout callback of requestForRetry runs: enqueue(job)
TimerFire ==
    \E job \in BagToSet(timers) :
        /\ timers' = timers (-) SetToBag({job})
        /\ queue' = LPush(queue, Stringify(job))
        /\ UNCHANGED <<dlq, pc, wjob, nextId, now, apc, ajob, asnap, ares,
                       calls, fails, delivered,
                       wlog, rejected, nulls, lost, bo, sideVars>>

WorkerNext ==
    \/ Notify
    \/ \E w \in Workers : Dequeue(w)
    \/ \E w \in Workers : HandlerSuccess(w)
    \/ \E w \in Workers : HandlerFailure(w)
    \/ TimerFire

\* ------------------------------------------------------ dead-letter routes
\* retryFromDLQ up to its first await after getDLQ: read, find, maybe return
RetryFromDLQ_Find(a) ==
    /\ apc[a] = "idle"
    /\ calls < MaxCalls
    /\ calls' = calls + 1
    /\ \E jobId \in JobIds \cup {UnknownId} :
         LET job == Find(getDLQ(dlq), jobId)
         IN  IF job = Undefined
             THEN /\ apc' = [apc EXCEPT ![a] = "respond"]
                  /\ ares' = [ares EXCEPT ![a] =
                        [op |-> "retryFromDLQ", id |-> jobId,
                         ret |-> "false", count |-> 0]]
                  /\ UNCHANGED ajob
             ELSE /\ apc' = [apc EXCEPT ![a] = "one_lrem"]
                  /\ ares' = [ares EXCEPT ![a] =
                        [op |-> "retryFromDLQ", id |-> jobId,
                         ret |-> "none", count |-> 0]]
                  /\ ajob' = [ajob EXCEPT ![a] = job]
    /\ UNCHANGED <<queue, dlq, pc, wjob, timers, nextId, now, asnap, fails,
                   delivered,
                   wlog, rejected, nulls, lost, bo, sideVars>>

\* mutant: the call goes on to enqueue without removing the entry
RetryFromDLQ_LRem_Skipped(a) ==
    /\ apc[a] = "one_lrem"
    /\ apc' = [apc EXCEPT ![a] = "one_enqueue"]
    /\ UNCHANGED <<queue, dlq, pc, wjob, timers, nextId, now, ajob, asnap,
                   ares, calls, fails, delivered,
                   wlog, rejected, nulls, lost, bo, sideVars>>

\* retryFromDLQ: redis.lrem(dlqName, 1, JSON.stringify(job))
RetryFromDLQ_LRem(a) ==
    /\ apc[a] = "one_lrem"
    /\ LET r == LRem(dlq, LRemCountOne, Stringify(ajob[a][1]))
       IN  IF r.err
           THEN /\ apc' = [apc EXCEPT ![a] = "respond"]
                /\ ares' = [ares EXCEPT ![a].ret = "threw"]
                /\ UNCHANGED dlq
           ELSE /\ apc' = [apc EXCEPT ![a] = "one_enqueue"]
                /\ dlq' = r.list
                /\ UNCHANGED ares
    /\ UNCHANGED <<queue, pc, wjob, timers, nextId, now, ajob, asnap, calls,
                   fails, delivered,
                   wlog, rejected, nulls, lost, bo, sideVars>>

\* retryFromDLQ: reset, enqueue(job), return true
RetryFromDLQ_Enqueue(a) ==
    /\ apc[a] = "one_enqueue"
    /\ queue' = LPush(queue, Stringify(Reset(ajob[a][1])))
    /\ ajob' = [ajob EXCEPT ![a] = Some(Reset(ajob[a][1]))]
    /\ ares' = [ares EXCEPT ![a].ret = "true"]
    /\ apc' = [apc EXCEPT ![a] = "respond"]
    /\ fails' = [fails EXCEPT ![ajob[a][1].id] = 0]
    /\ UNCHANGED <<dlq, pc, wjob, timers, nextId, now, asnap, calls,
                   delivered,
                   wlog, rejected, nulls, lost, bo, sideVars>>

\* retryAllDLQ up to the first await of its loop: read the dead-letter list
RetryAllDLQ_Read(a) ==
    /\ apc[a] = "idle"
    /\ calls < MaxCalls
    /\ calls' = calls + 1
    /\ asnap' = [asnap EXCEPT ![a] = getDLQ(dlq)]
    /\ IF getDLQ(dlq) = <<>>
       THEN /\ apc' = [apc EXCEPT ![a] = "respond"]
            /\ ares' = [ares EXCEPT ![a] =
                  [op |-> "retryAllDLQ", id |-> UnknownId,
                   ret |-> "number", count |-> 0]]
       ELSE /\ apc' = [apc EXCEPT ![a] = "all_lrem"]
            /\ ares' = [ares EXCEPT ![a] =
                  [op |-> "retryAllDLQ", id |-> UnknownId,
                   ret |-> "none", count |-> 0]]
    /\ UNCHANGED <<queue, dlq, pc, wjob, timers, nextId, now, ajob, fails,
                   delivered,
                   wlog, rejected, nulls, lost, bo, sideVars>>

\* retryAllDLQ: one await of the loop body for the job at position
\* retried + 1 of dlqJobs, either
\*   redis.lrem(dlqName, this.queueName, JSON.stringify(job)), or
\*   the reset, enqueue(job), retried++ and the loop test
RetryAllDLQ_Loop(a) ==
    /\ apc[a] \in {"all_lrem", "all_enqueue"}
    /\ LET job == asnap[a][ares[a].count + 1]
       IN  IF apc[a] = "all_lrem"
           THEN LET r == LRem(dlq, queueName, Stringify(job))
                IN  IF r.err
                    THEN /\ apc' = [apc EXCEPT ![a] = "respond"]
                         /\ ares' = [ares EXCEPT ![a].ret = "threw"]
                         /\ UNCHANGED <<queue, dlq, fails>>
                    ELSE /\ apc' = [apc EXCEPT ![a] = "all_enqueue"]
                         /\ dlq' = r.list
                         /\ UNCHANGED <<queue, ares, fails>>
           ELSE /\ queue' = LPush(queue, Stringify(Reset(job)))
                /\ IF ares[a].count + 1 = Len(asnap[a])
                   THEN /\ apc' = [apc EXCEPT ![a] = "respond"]
                        /\ ares' = [ares EXCEPT ![a].ret = "number",
                                                ![a].count = @ + 1]
                   ELSE /\ apc' = [apc EXCEPT ![a] = "all_lrem"]
                        /\ ares' = [ares EXCEPT ![a].count = @ + 1]
                /\ fails' = [fails EXCEPT ![job.id] = 0]
                /\ UNCHANGED dlq
    /\ UNCHANGED <<pc, wjob, timers, nextId, now, ajob, asnap, calls,
                   delivered,
                   wlog, rejected, nulls, lost, bo, sideVars>>

\* the HTTP status the route sends for a result; 0 when it sends nothing
\* (the promise of the async route handler rejected)
RouteStatus(res) ==
    IF res.ret = "threw" THEN 0
    ELSE IF res.op = "retryFromDLQ" /\ res.ret = "false" THEN 404
    ELSE 200

\* the route handler resumes after its await and the request ends
Respond(a) ==
    /\ apc[a] = "respond"
    /\ apc' = [apc EXCEPT ![a] = "idle"]
    /\ ares' = [ares EXCEPT ![a] = NoResult]
    /\ ajob' = [ajob EXCEPT ![a] = Undefined]
    /\ asnap' = [asnap EXCEPT ![a] = <<>>]
    /\ UNCHANGED <<queue, dlq, pc, wjob, timers, nextId, now, calls, fails,
                   delivered,
                   wlog, rejected, nulls, lost, bo, sideVars>>

AdminNext ==
    \/ \E a \in Admins : RetryFromDLQ_Find(a)
    \/ \E a \in Admins : RetryFromDLQ_LRem(a)
    \/ \E a \in Admins : RetryFromDLQ_Enqueue(a)
    \/ \E a \in Admins : RetryAllDLQ_Read(a)
    \/ \E a \in Admins : RetryAllDLQ_Loop(a)
    \/ \E a \in Admins : Respond(a)

Next == WorkerNext \/ AdminNext

Spec == Init /\ [][Next]_vars

\* A call of a dead-letter route runs with no concurrent operation: while a
\* call is in progress only that call takes steps.
InCall == \E a \in Admins : apc[a] # "idle"

SeqNext ==
    \/ ~InCall /\ WorkerNext
    \/ ~InCall /\ \E a \in Admins : RetryFromDLQ_Find(a)
    \/ ~InCall /\ \E a \in Admins : RetryAllDLQ_Read(a)
    \/ \E a \in Admins : RetryFromDLQ_LRem(a)
    \/ \E a \in Admins : RetryFromDLQ_Enqueue(a)
    \/ \E a \in Admins : RetryAllDLQ_Loop(a)
    \/ \E a \in Admins : Respond(a)

SeqSpec == Init /\ [][SeqNext]_vars

\* Producer, workers and retry timers interleave freely with the dead-letter
\* routes, of which at most one call is in progress at a time: every call is
\* made by the one caller, whose next call starts when its last one ended.
Caller == 1

OneCallNext ==
    \/ WorkerNext
    \/ RetryFromDLQ_Find(Caller)
    \/ RetryFromDLQ_LRem(Caller)
    \/ RetryFromDLQ_Enqueue(Caller)
    \/ RetryAllDLQ_Read(Caller)
    \/ RetryAllDLQ_Loop(Caller)
    \/ Respond(Caller)

OneCallSpec == Init /\ [][OneCallNext]_vars

\* Producer, workers and retry timers only, scheduled fairly: a worker loop
\* keeps calling dequeue, a handler returns or throws, a timer fires.
WorkerFairness ==
    /\ \A w \in Workers : WF_vars(Dequeue(w))
    /\ \A w \in Workers : WF_vars(HandlerSuccess(w) \/ HandlerFailure(w))
    /\ WF_vars(TimerFire)

WorkerSpec == Init /\ [][WorkerNext]_vars /\ WorkerFairness

\* ------------------------------------------------------ dequeue timeout
\* worker loop: dequeue returns null, `if(!job) continue`
DequeueTimeout(w) ==
    /\ pc[w] = "idle"
    /\ nulls < MaxTimeouts
    /\ LET r == dequeue(queue)
       IN  /\ r.job = Undefined
           /\ queue' = r.rest
    /\ nulls' = nulls + 1
    /\ UNCHANGED <<dlq, pc, wjob, timers, nextId, now, apc, ajob, asnap, ares,
                   calls, fails, delivered, wlog, rejected, lost, bo,
                   sideVars>>

PollNext ==
    \/ WorkerNext
    \/ \E w \in Workers : DequeueTimeout(w)

PollSpec == Init /\ [][PollNext]_vars

\* ------------------------------------------------- one worker process
SoloNext ==
    \/ Notify
    \/ Dequeue(Solo)
    \/ HandlerSuccess(Solo)
    \/ HandlerFailure(Solo)
    \/ TimerFire

SoloSpec == Init /\ [][SoloNext]_vars

\* ------------------------------------------- retryAllDLQ beside a worker
BulkNext ==
    \/ SoloNext
    \/ \E a \in Admins : RetryAllDLQ_Read(a)
    \/ \E a \in Admins : RetryAllDLQ_Loop(a)
    \/ \E a \in Admins : Respond(a)

BulkSpec == Init /\ [][BulkNext]_vars

\* ------------------------------------- store failures and process restart
\* worker loop: the brpop of dequeue is rejected; the outer catch reports the
\* error and starts its wait
DequeueFails(w) ==
    /\ pc[w] = "idle"
    /\ rejected < MaxRejects
    /\ rejected' = rejected + 1
    /\ pc' = [pc EXCEPT ![w] = "backoff"]
    /\ wlog' = [wlog EXCEPT ![w] = <<WorkerErrorLine("brpop")>>]
    /\ UNCHANGED <<queue, dlq, wjob, timers, nextId, now, apc, ajob, asnap,
                   ares, calls, fails, delivered, nulls, lost, bo, sideVars>>

\* mutant: moveToDLQ swallows the rejection, the iteration ends as after an
\* ordinary handler failure
MoveToDLQFails_Swallowed(w) ==
    /\ pc[w] = "processing"
    /\ rejected < MaxRejects
    /\ \E error \in Errors(wjob[w][1]) :
         requestForRetry(wjob[w][1], error).toDLQ
    /\ rejected' = rejected + 1
    /\ pc' = [pc EXCEPT ![w] = "idle"]
    /\ wjob' = [wjob EXCEPT ![w] = Undefined]
    /\ fails' = [fails EXCEPT ![wjob[w][1].id] = @ + 1]
    /\ UNCHANGED <<queue, dlq, timers, nextId, now, apc, ajob, asnap, ares,
                   calls, delivered, wlog, nulls, lost, bo, sideVars>>

\* worker loop: processJob throws, the inner catch reports the failure and
\* calls requestForRetry, which calls moveToDLQ, whose lpush is rejected; the
\* rejection leaves moveToDLQ, requestForRetry and the inner catch, and the
\* outer catch reports it and starts its wait
MoveToDLQFails(w) ==
    /\ pc[w] = "processing"
    /\ rejected < MaxRejects
    /\ \E error \in Errors(wjob[w][1]) :
         /\ requestForRetry(wjob[w][1], error).toDLQ
         /\ wlog' = [wlog EXCEPT ![w] =
               <<JobFailedLine(wjob[w][1], error), WorkerErrorLine("lpush")>>]
    /\ rejected' = rejected + 1
    /\ pc' = [pc EXCEPT ![w] = "backoff"]
    /\ wjob' = [wjob EXCEPT ![w] = Undefined]
    /\ fails' = [fails EXCEPT ![wjob[w][1].id] = @ + 1]
    /\ UNCHANGED <<queue, dlq, timers, nextId, now, apc, ajob, asnap, ares,
                   calls, delivered, nulls, lost, bo, sideVars>>

\* worker loop: the wait of the outer catch ends, the loop calls dequeue
BackoffDone(w) ==
    /\ pc[w] = "backoff"
    /\ pc' = [pc EXCEPT ![w] = "idle"]
    /\ wlog' = [wlog EXCEPT ![w] = <<>>]
    /\ UNCHANGED <<queue, dlq, wjob, timers, nextId, now, apc, ajob, asnap,
                   ares, calls, fails, delivered, rejected, nulls, lost, bo,
                   sideVars>>

\* the ids of the jobs of a bag of timers
TimerIds(bag) == {job.id : job \in BagToSet(bag)}

\* the setTimeout callback of requestForRetry runs and the lpush of its
\* enqueue is rejected: the promise of the callback rejects and nothing
\* handles it. The runtime either warns and goes on, or ends the process,
\* and with it the worker loop and the timers it holds.
TimerEnqueueFails ==
    /\ rejected < MaxRejects
    /\ rejected' = rejected + 1
    /\ \E job \in BagToSet(timers), outcome \in {"warned", "crashed"} :
         IF outcome = "warned"
         THEN /\ timers' = timers (-) SetToBag({job})
              /\ UNCHANGED <<pc, wjob, wlog, lost>>
         ELSE /\ timers' = EmptyBag
              /\ lost' = lost \cup TimerIds(timers (-) SetToBag({job}))
              /\ pc' = [pc EXCEPT ![Solo] = "crashed"]
              /\ wjob' = [wjob EXCEPT ![Solo] = Undefined]
              /\ wlog' = [wlog EXCEPT ![Solo] = <<>>]
    /\ UNCHANGED <<queue, dlq, nextId, now, apc, ajob, asnap, ares, calls,
                   fails, delivered, nulls, bo, sideVars>>

\* mutant: the pending timers outlive the process
Restart_KeepsTimers ==
    /\ lost' = lost \cup TimerIds(timers)
    /\ pc' = [pc EXCEPT ![Solo] = "idle"]
    /\ wjob' = [wjob EXCEPT ![Solo] = Undefined]
    /\ wlog' = [wlog EXCEPT ![Solo] = <<>>]
    /\ UNCHANGED <<queue, dlq, timers, nextId, now, apc, ajob, asnap, ares,
                   calls, fails, delivered, rejected, nulls, bo, sideVars>>

\* the worker process is stopped and started again: the job it was handling
\* and its pending timers are gone, startWorker runs from its beginning
Restart ==
    /\ timers' = EmptyBag
    /\ lost' = lost \cup TimerIds(timers)
    /\ pc' = [pc EXCEPT ![Solo] = "idle"]
    /\ wjob' = [wjob EXCEPT ![Solo] = Undefined]
    /\ wlog' = [wlog EXCEPT ![Solo] = <<>>]
    /\ UNCHANGED <<queue, dlq, nextId, now, apc, ajob, asnap, ares, calls,
                   fails, delivered, rejected, nulls, bo, sideVars>>

FaultNext ==
    \/ SoloNext
    \/ DequeueFails(Solo)
    \/ MoveToDLQFails(Solo)
    \/ BackoffDone(Solo)
    \/ TimerEnqueueFails
    \/ Restart

FaultSpec == Init /\ [][FaultNext]_vars

\* ------------------------------------------------ calls of getBackOffDelay
\* any attempt from 1 on and any value of Math.random()
BackoffInit ==
    /\ queue = <<>>
    /\ dlq = <<>>
    /\ pc = [w \in Workers |-> "idle"]
    /\ wjob = [w \in Workers |-> Undefined]
    /\ timers = EmptyBag
    /\ nextId = 0
    /\ now = 1
    /\ apc = [a \in Admins |-> "idle"]
    /\ ajob = [a \in Admins |-> Undefined]
    /\ asnap = [a \in Admins |-> <<>>]
    /\ ares = [a \in Admins |-> NoResult]
    /\ calls = 0
    /\ fails = [i \in JobIds |-> 0]
    /\ delivered = [i \in JobIds |-> 0]
    /\ wlog = [w \in Workers |-> <<>>]
    /\ rejected = 0
    /\ nulls = 0
    /\ lost = {}
    /\ bo \in [attempt : 1..MaxAttemptArg, random : 0..(RandomSteps - 1),
               delay : {Undefined}]
    /\ view = NoView
    /\ CacheIdle
    /\ BusIdle
    /\ StoreIdle
    /\ HttpIdle
    /\ SseIdle
    /\ SendIdle

\* getBackOffDelay returns
BackoffReturn ==
    /\ bo.delay = Undefined
    /\ bo' = [bo EXCEPT !.delay = Some(getBackOffDelay(bo.attempt, bo.random))]
    /\ UNCHANGED <<queue, dlq, pc, wjob, timers, nextId, now, apc, ajob, asnap,
                   ares, calls, fails, delivered, wlog, rejected, nulls, lost,
                   sideVars>>

BackoffNext == BackoffReturn

BackoffSpec == BackoffInit /\ [][BackoffNext]_vars

\* --------------------------------------------------- read-only calls
\* size: llen(queueName)
size(list) == LLen(list)

\* mutant: the range is taken from the tail of the list
peek_FromTail(list, count) ==
    LET items == SubSeq(list, Len(list) - Min(count, Len(list)) + 1, Len(list))
    IN  [i \in 1..Len(items) |-> Parse(items[i])]

\* peek(count): lrange(queueName, 0, count - 1), each item parsed
peek(list, count) ==
    LET items == LRange(list, 0, count - 1)
    IN  [i \in 1..Len(items) |-> Parse(items[i])]

\* the main queue after POST /notify was served k times and nothing was
\* dequeued
RECURSIVE Enqueued(_)
Enqueued(k) ==
    IF k = 0 THEN <<>> ELSE LPush(Enqueued(k - 1), Stringify(NewJob(k)))

\* the job after its handler failed n more times
RECURSIVE FailedTimes(_, _)
FailedTimes(job, n) ==
    IF n = 0 THEN job
    ELSE FailedTimes(requestForRetry(job, ErrorMessage(job.attempt + 1, 1)).job,
                     n - 1)

\* the dead-letter list after the jobs first + 1 .. first + d ran out of
\* attempts, in this order, job first + i at clock reading i
RECURSIVE DeadLettered(_, _)
DeadLettered(first, d) ==
    IF d = 0 THEN <<>>
    ELSE LPush(DeadLettered(first, d - 1),
               Stringify(moveToDLQ(FailedTimes(NewJob(first + d),
                                               DefaultMaxAttempts + 1), d)))

\* The read-only calls are applied to a queue of up to MaxQueued waiting
\* jobs and a dead-letter list of up to MaxDead dead jobs; no writer runs.
ReadInit ==
    /\ \E k \in 0..MaxQueued, d \in 0..MaxDead :
           /\ queue = Enqueued(k)
           /\ dlq = DeadLettered(k, d)
    /\ pc = [w \in Workers |-> "idle"]
    /\ wjob = [w \in Workers |-> Undefined]
    /\ timers = EmptyBag
    /\ nextId = 0
    /\ now = 1
    /\ apc = [a \in Admins |-> "idle"]
    /\ ajob = [a \in Admins |-> Undefined]
    /\ asnap = [a \in Admins |-> <<>>]
    /\ ares = [a \in Admins |-> NoResult]
    /\ calls = 0
    /\ fails = [i \in JobIds |-> 0]
    /\ delivered = [i \in JobIds |-> 0]
    /\ wlog = [w \in Workers |-> <<>>]
    /\ rejected = 0
    /\ nulls = 0
    /\ lost = {}
    /\ bo = NoCall
    /\ view = NoView
    /\ CacheIdle
    /\ BusIdle
    /\ StoreIdle
    /\ HttpIdle
    /\ SseIdle
    /\ SendIdle

\* queue.size()
Size ==
    /\ view' = [op |-> "size", count |-> 0, size |-> size(queue),
                jobs |-> <<>>]
    /\ UNCHANGED <<queueVars, cacheVars, busVars, storeVars,
                   httpVars, sseVars, sendVars>>

\* queue.peek(count)
Peek(count) ==
    /\ view' = [op |-> "peek", count |-> count, size |-> 0,
                jobs |-> peek(queue, count)]
    /\ UNCHANGED <<queueVars, cacheVars, busVars, storeVars,
                   httpVars, sseVars, sendVars>>

\* queue.getDLQ()
GetDLQ ==
    /\ view' = [op |-> "getDLQ", count |-> 0, size |-> 0,
                jobs |-> getDLQ(dlq)]
    /\ UNCHANGED <<queueVars, cacheVars, busVars, storeVars,
                   httpVars, sseVars, sendVars>>

\* queue.dlqSize()
DlqSize ==
    /\ view' = [op |-> "dlqSize", count |-> 0, size |-> dlqSize(dlq),
                jobs |-> <<>>]
    /\ UNCHANGED <<queueVars, cacheVars, busVars, storeVars,
                   httpVars, sseVars, sendVars>>

\* GET /queue/stats: queueSize = size(), pendingJobs = peek(5)
QueueStats ==
    /\ view' = [op |-> "stats", count |-> PeekCount, size |-> size(queue),
                jobs |-> peek(queue, PeekCount)]
    /\ UNCHANGED <<queueVars, cacheVars, busVars, storeVars,
                   httpVars, sseVars, sendVars>>

ReadNext ==
    \/ Size
    \/ \E count \in 1..MaxPeek : Peek(count)
    \/ GetDLQ
    \/ DlqSize
    \/ QueueStats

ReadSpec == ReadInit /\ [][ReadNext]_vars

\* ------------------------------------------- preferences routes
\* GET /prefs/:userId arrives: cacheThrough calls cacheGet, which sends GET
GetPrefs_Start(c) ==
    /\ req[c].pc = "idle"
    /\ gets < MaxGets
    /\ gets' = gets + 1
    /\ \E u \in Users :
           req' = [req EXCEPT ![c] =
                      [op |-> "get", pc |-> "cacheGet", userId |-> u,
                       value |-> Undefined, floor |-> done[u],
                       warm |-> kv[CacheKey(PrefsKey(u))] # Undefined]]
    /\ UNCHANGED <<kv, db, puts, computes, done>>
    /\ UNCHANGED <<queueVars, readVars, busVars, storeVars,
                   httpVars, sseVars, sendVars>>

\* cacheThrough after cacheGet: a hit is returned and answered, a miss
\* calls computeFn, which waits 200 ms
GetPrefs_CacheGet(c) ==
    /\ req[c].pc = "cacheGet"
    /\ LET cached == cacheGet(kv, PrefsKey(req[c].userId))
       IN  IF cached # Undefined
           THEN /\ req' = [req EXCEPT ![c].pc = "idle", ![c].value = cached]
                /\ UNCHANGED computes
           ELSE /\ req' = [req EXCEPT ![c].pc = "compute"]
                /\ computes' = [computes EXCEPT ![req[c].userId] = @ + 1]
    /\ UNCHANGED <<kv, db, gets, puts, done>>
    /\ UNCHANGED <<queueVars, readVars, busVars, storeVars,
                   httpVars, sseVars, sendVars>>

\* computeFn after its wait: userPrefsDB[userId]; cacheThrough calls cacheSet
GetPrefs_Compute(c) ==
    /\ req[c].pc = "compute"
    /\ req' = [req EXCEPT ![c].pc = "cacheSet",
                          ![c].value = Some(db[req[c].userId])]
    /\ UNCHANGED <<kv, db, gets, puts, computes, done>>
    /\ UNCHANGED <<queueVars, readVars, busVars, storeVars,
                   httpVars, sseVars, sendVars>>

\* cacheSet's SET; cacheThrough returns the computed value, the route answers
GetPrefs_CacheSet(c) ==
    /\ req[c].pc = "cacheSet"
    /\ kv' = cacheSet(kv, PrefsKey(req[c].userId), req[c].value[1])
    /\ req' = [req EXCEPT ![c].pc = "idle"]
    /\ UNCHANGED <<db, gets, puts, computes, done>>
    /\ UNCHANGED <<queueVars, readVars, busVars, storeVars,
                   httpVars, sseVars, sendVars>>

\* PUT /prefs/:userId arrives: userPrefsDB is updated, cacheDelete sends DEL
PutPrefs_Update(c) ==
    /\ req[c].pc = "idle"
    /\ puts < MaxPuts
    /\ puts' = puts + 1
    /\ \E u \in Users :
           /\ db' = [db EXCEPT ![u] = Merge(db[u])]
           /\ req' = [req EXCEPT ![c] =
                         [op |-> "put", pc |-> "cacheDelete", userId |-> u,
                          value |-> Some(Merge(db[u])), floor |-> done[u],
                          warm |-> kv[CacheKey(PrefsKey(u))] # Undefined]]
    /\ UNCHANGED <<kv, gets, computes, done>>
    /\ UNCHANGED <<queueVars, readVars, busVars, storeVars,
                   httpVars, sseVars, sendVars>>

\* cacheDelete's DEL; the route answers: the PUT has completed
PutPrefs_CacheDelete(c) ==
    /\ req[c].pc = "cacheDelete"
    /\ kv' = cacheDelete(kv, PrefsKey(req[c].userId))
    /\ req' = [req EXCEPT ![c].pc = "idle"]
    /\ done' = [done EXCEPT ![req[c].userId] =
                   IF req[c].value[1].rev > @ THEN req[c].value[1].rev ELSE @]
    /\ UNCHANGED <<db, gets, puts, computes>>
    /\ UNCHANGED <<queueVars, readVars, busVars, storeVars,
                   httpVars, sseVars, sendVars>>

\* the TTL of a key set with EX runs out
Expire(key) ==
    /\ kv[key] # Undefined
    /\ kv' = [kv EXCEPT ![key] = Undefined]
    /\ UNCHANGED <<db, req, gets, puts, computes, done>>
    /\ UNCHANGED <<queueVars, readVars, busVars, storeVars,
                   httpVars, sseVars, sendVars>>

CacheNext ==
    \/ \E c \in Clients : GetPrefs_Start(c)
    \/ \E c \in Clients : GetPrefs_CacheGet(c)
    \/ \E c \in Clients : GetPrefs_Compute(c)
    \/ \E c \in Clients : GetPrefs_CacheSet(c)
    \/ \E c \in Clients : PutPrefs_Update(c)
    \/ \E c \in Clients : PutPrefs_CacheDelete(c)
    \/ \E key \in RedisKeys : Expire(key)

CacheSpec == Init /\ [][CacheNext]_vars

\* ------------------------------------------------- event bus, subscribers
\* registerSubscribers: three subscribe calls, none awaited, one after the
\* other in one synchronous run
RegisterSubscribers ==
    /\ ~registered
    /\ registered' = TRUE
    /\ LET b0 == [handlers |-> handlers, listeners |-> listeners,
                  awaiting |-> awaiting]
           b1 == subscribe(b0, DeliveredChannel, Subscribers[1])
           b2 == subscribe(b1, DeliveredChannel, Subscribers[2])
           b3 == subscribe(b2, DeliveredChannel, Subscribers[3])
       IN  /\ handlers' = b3.handlers
           /\ listeners' = b3.listeners
           /\ awaiting' = b3.awaiting
    /\ UNCHANGED <<subscribed, published, event, tasks, throws, unread, feed,
                   analytics, clock>>
    /\ UNCHANGED <<queueVars, readVars, cacheVars, storeVars,
                   httpVars, sseVars, sendVars>>

\* SUBSCRIBE is acknowledged; EventBus.subscribe continues after its await
SubscribeAck ==
    /\ awaiting # <<>>
    /\ subscribed' = subscribed \cup {Head(awaiting)}
    /\ awaiting' = Tail(awaiting)
    /\ listeners' = IF MapSize(handlers) = 1 THEN listeners + 1 ELSE listeners
    /\ UNCHANGED <<handlers, registered, published, event, tasks, throws,
                   unread, feed, analytics, clock>>
    /\ UNCHANGED <<queueVars, readVars, cacheVars, storeVars,
                   httpVars, sseVars, sendVars>>

\* processJob publishes the event of the next delivered notification; Redis
\* hands the message to the subscriber connection if it is subscribed, and
\* every 'message' listener starts its loop over the channel's handlers.
\* Events are dispatched one at a time.
Publish ==
    /\ published < MaxEvents
    /\ \A l \in 1..Len(tasks) :
           Len(tasks[l]) = Len(handlers[DeliveredChannel][1])
    /\ published' = published + 1
    /\ IF DeliveredChannel \in subscribed
       THEN /\ event' = Some(StringifyEvent(Event(published + 1)))
            /\ tasks' = [l \in 1..listeners |-> <<>>]
       ELSE /\ event' = Undefined
            /\ tasks' = <<>>
    /\ UNCHANGED <<handlers, listeners, awaiting, subscribed, registered,
                   throws, unread, feed, analytics, clock>>
    /\ UNCHANGED <<queueVars, readVars, cacheVars, storeVars,
                   httpVars, sseVars, sendVars>>

\* what handler h does with the event when it does not throw
Handle(h, e) ==
    /\ unread' = IF h = "unread" THEN [unread EXCEPT ![e.userId] = @ + 1]
                 ELSE unread
    /\ feed' = IF h = "feed"
               THEN [feed EXCEPT ![e.userId] =
                        @ \cup {[id |-> e.jobId, createdAt |-> clock]}]
               ELSE feed
    /\ analytics' = IF h = "analytics" THEN analytics + 1 ELSE analytics

\* mutant: a handler's throw leaves the listener's loop
Invoke_Propagates(l) ==
    /\ event # Undefined
    /\ l \in 1..Len(tasks)
    /\ Len(tasks[l]) < Len(handlers[DeliveredChannel][1])
    /\ LET e == ParseEvent(event[1])
           channelHandlers == handlers[e.type][1]
           h == channelHandlers[Len(tasks[l]) + 1]
       IN  \/ /\ tasks' = [tasks EXCEPT ![l] = Append(@, "ok")]
              /\ Handle(h, e)
              /\ UNCHANGED throws
           \/ /\ throws < MaxThrows
              /\ throws' = throws + 1
              /\ tasks' = [tasks EXCEPT ![l] =
                    @ \o [i \in 1..(Len(channelHandlers) - Len(@)) |->
                              IF i = 1 THEN "threw" ELSE "skipped"]]
              /\ UNCHANGED <<unread, feed, analytics>>
    /\ UNCHANGED <<handlers, listeners, awaiting, subscribed, registered,
                   published, event, clock>>
    /\ UNCHANGED <<queueVars, readVars, cacheVars, storeVars,
                   httpVars, sseVars, sendVars>>

\* listener l's loop invokes its next handler inside try/catch: the handler
\* returns or throws; a throw is logged and the loop goes on
Invoke(l) ==
    /\ event # Undefined
    /\ l \in 1..Len(tasks)
    /\ Len(tasks[l]) < Len(handlers[DeliveredChannel][1])
    /\ LET e == ParseEvent(event[1])
           channelHandlers == handlers[e.type][1]
           h == channelHandlers[Len(tasks[l]) + 1]
       IN  \/ /\ tasks' = [tasks EXCEPT ![l] = Append(@, "ok")]
              /\ Handle(h, e)
              /\ UNCHANGED throws
           \/ /\ throws < MaxThrows
              /\ throws' = throws + 1
              /\ tasks' = [tasks EXCEPT ![l] = Append(@, "threw")]
              /\ UNCHANGED <<unread, feed, analytics>>
    /\ UNCHANGED <<handlers, listeners, awaiting, subscribed, registered,
                   published, event, clock>>
    /\ UNCHANGED <<queueVars, readVars, cacheVars, storeVars,
                   httpVars, sseVars, sendVars>>

\* a millisecond passes
Tick ==
    /\ clock < MaxTicks
    /\ clock' = clock + 1
    /\ UNCHANGED <<handlers, listeners, awaiting, subscribed, registered,
                   published, event, tasks, throws, unread, feed, analytics>>
    /\ UNCHANGED <<queueVars, readVars, cacheVars, storeVars,
                   httpVars, sseVars, sendVars>>

BusNext ==
    \/ RegisterSubscribers
    \/ SubscribeAck
    \/ Publish
    \/ \E l \in 1..MaxListeners : Invoke(l)
    \/ Tick

BusSpec == Init /\ [][BusNext]_vars

\* =================================================================
\* POST /notify, the whole handler
\* =================================================================
\* either server, no request yet
NotifyInit ==
    /\ queue = <<>>
    /\ dlq = <<>>
    /\ pc = [w \in Workers |-> "idle"]
    /\ wjob = [w \in Workers |-> Undefined]
    /\ timers = EmptyBag
    /\ nextId = 0
    /\ now = 1
    /\ apc = [a \in Admins |-> "idle"]
    /\ ajob = [a \in Admins |-> Undefined]
    /\ asnap = [a \in Admins |-> <<>>]
    /\ ares = [a \in Admins |-> NoResult]
    /\ calls = 0
    /\ fails = [i \in JobIds |-> 0]
    /\ delivered = [i \in JobIds |-> 0]
    /\ wlog = [w \in Workers |-> <<>>]
    /\ rejected = 0
    /\ nulls = 0
    /\ lost = {}
    /\ bo = NoCall
    /\ view = NoView
    /\ CacheIdle
    /\ BusIdle
    /\ StoreIdle
    /\ server \in Servers
    /\ post = [p \in Producers |-> NoPost]
    /\ posts = 0
    /\ SseIdle
    /\ SendIdle

\* the handler up to its first await or its return: a body without userId
\* or channel is answered 400; otherwise the job is built with a fresh id
\* and enqueue sends LPUSH
PostNotify_Receive(p, body) ==
    /\ post[p].pc \in {"idle", "answered"}
    /\ body \in RequestBodies(nextId + 1)
    /\ posts < MaxPosts
    /\ posts' = posts + 1
    /\ IF MissingField(body)
       THEN /\ post' = [post EXCEPT ![p] =
                           [pc |-> "answered", body |-> Some(body),
                            job |-> Undefined, status |-> 400]]
            /\ UNCHANGED nextId
       ELSE /\ nextId < MaxJobs
            /\ nextId' = nextId + 1
            /\ post' = [post EXCEPT ![p] =
                           [pc |-> "enqueue", body |-> Some(body),
                            job |-> Some(NewJob(nextId + 1)), status |-> 0]]
    /\ UNCHANGED <<queue, dlq, pc, wjob, timers, now, apc, ajob, asnap, ares,
                   calls, fails, delivered, wlog, rejected, nulls, lost, bo>>
    /\ UNCHANGED <<server, readVars, cacheVars, busVars, storeVars, sseVars,
                   sendVars>>

\* await queue.enqueue(job): LPUSH runs
PostNotify_Enqueue(p) ==
    /\ post[p].pc = "enqueue"
    /\ queue' = LPush(queue, Stringify(post[p].job[1]))
    /\ post' = [post EXCEPT ![p].pc = "answer"]
    /\ UNCHANGED <<dlq, pc, wjob, timers, nextId, now, apc, ajob, asnap, ares,
                   calls, fails, delivered, wlog, rejected, nulls, lost, bo>>
    /\ UNCHANGED <<server, posts, readVars, cacheVars, busVars, storeVars,
                   sseVars, sendVars>>

\* the handler answers that the job is queued
PostNotify_Answer(p) ==
    /\ post[p].pc = "answer"
    /\ post' = [post EXCEPT ![p].pc = "answered",
                            ![p].status = QueuedStatus(server)]
    /\ UNCHANGED <<queueVars, server, posts, readVars, cacheVars, busVars,
                   storeVars, sseVars, sendVars>>

NotifyNext ==
    \/ \E p \in Producers, body \in AllBodies : PostNotify_Receive(p, body)
    \/ \E p \in Producers : PostNotify_Enqueue(p)
    \/ \E p \in Producers : PostNotify_Answer(p)

NotifySpec == NotifyInit /\ [][NotifyNext]_vars

\* =================================================================
\* PollingHandlers: server-sent events
\* =================================================================
\* GET /sse?userId=u on a new connection: sseStream writes the headers and
\* awaits store.getUnreadCount(userId)
SseStream_Start(k, userId) ==
    /\ sse[k].pc = "none"
    /\ \A j \in 1..(k - 1) : sse[j].pc # "none"
    /\ sse' = [sse EXCEPT ![k] =
                  [userId |-> userId, pc |-> "awaiting", open |-> TRUE,
                   onClose |-> FALSE, heartbeat |-> FALSE]]
    /\ UNCHANGED <<sseClients, wroteClosed>>
    /\ UNCHANGED <<queueVars, readVars, cacheVars, busVars, storeVars,
                   httpVars, sendVars>>

\* the unread count arrives: sseStream writes the first message, pushes
\* res to the user's array, starts the heartbeat and attaches the 'close'
\* listener to req
SseStream_Register(k) ==
    /\ sse[k].pc = "awaiting"
    /\ wroteClosed' = IF sse[k].open THEN wroteClosed
                      ELSE wroteClosed \cup {<<"connected", k>>}
    /\ sseClients' = [sseClients EXCEPT ![sse[k].userId] =
                          Some(Append(ClientsOf(sseClients, sse[k].userId), k))]
    /\ sse' = [sse EXCEPT ![k].pc = "streaming", ![k].heartbeat = TRUE,
                          ![k].onClose = TRUE]
    /\ UNCHANGED <<queueVars, readVars, cacheVars, busVars, storeVars,
                   httpVars, sendVars>>

\* the client goes away: req emits 'close', once, to the listeners attached
\* at that moment; the listener of sseStream stops the heartbeat and takes
\* res out of the user's array
Sse_Close(k) ==
    /\ sse[k].open
    /\ IF sse[k].onClose
       THEN /\ sse' = [sse EXCEPT ![k].open = FALSE, ![k].heartbeat = FALSE]
            /\ sseClients' = [sseClients EXCEPT ![sse[k].userId] =
                   Some(Without(ClientsOf(sseClients, sse[k].userId), k))]
       ELSE /\ sse' = [sse EXCEPT ![k].open = FALSE]
            /\ UNCHANGED sseClients
    /\ UNCHANGED wroteClosed
    /\ UNCHANGED <<queueVars, readVars, cacheVars, busVars, storeVars,
                   httpVars, sendVars>>

\* the interval of connection k fires: res.write(':heartbeat'), which
\* changes nothing here when the connection is open
Sse_Heartbeat(k) ==
    /\ sse[k].heartbeat
    /\ ~sse[k].open
    /\ wroteClosed' = wroteClosed \cup {<<"heartbeat", k>>}
    /\ UNCHANGED <<sse, sseClients>>
    /\ UNCHANGED <<queueVars, readVars, cacheVars, busVars, storeVars,
                   httpVars, sendVars>>

\* pushToSSEClients(userId, data): client.write(message) for every client
\* of the user's array
PushToSSEClients(userId) ==
    /\ ClientsOf(sseClients, userId) # <<>>
    /\ wroteClosed' =
           wroteClosed \cup
               {<<"push", ClientsOf(sseClients, userId)[i]>> :
                   i \in {j \in 1..Len(ClientsOf(sseClients, userId)) :
                              ~sse[ClientsOf(sseClients, userId)[j]].open}}
    /\ UNCHANGED <<sse, sseClients>>
    /\ UNCHANGED <<queueVars, readVars, cacheVars, busVars, storeVars,
                   httpVars, sendVars>>

SseNext ==
    \/ \E k \in Conns, u \in SseUsers : SseStream_Start(k, u)
    \/ \E k \in Conns : SseStream_Register(k)
    \/ \E k \in Conns : Sse_Close(k)
    \/ \E k \in Conns : Sse_Heartbeat(k)
    \/ \E u \in SseUsers : PushToSSEClients(u)

SseSpec == Init /\ [][SseNext]_vars

\* ------------------------------------------- Layer-5 worker (send, publish)
\* processJob: the channel send (sendEmail, sendSMS or sendPush) returns;
\* the worker goes on to eventBus.publish (pc "publishing")
ProcessJob_Send(w) ==
    /\ pc[w] = "processing"
    /\ pc' = [pc EXCEPT ![w] = "publishing"]
    /\ sent' = [sent EXCEPT ![wjob[w][1].id] = @ + 1]
    /\ UNCHANGED <<queue, dlq, wjob, timers, nextId, now, apc, ajob, asnap,
                   ares, calls, fails, delivered, wlog, rejected, nulls,
                   lost, bo>>
    /\ UNCHANGED <<readVars, cacheVars, busVars, storeVars, httpVars,
                   sseVars>>

\* processJob: eventBus.publish returns, processJob returns, the job is done
ProcessJob_Publish(w) ==
    /\ pc[w] = "publishing"
    /\ pc' = [pc EXCEPT ![w] = "idle"]
    /\ wjob' = [wjob EXCEPT ![w] = Undefined]
    /\ delivered' = [delivered EXCEPT ![wjob[w][1].id] = @ + 1]
    /\ UNCHANGED <<queue, dlq, timers, nextId, now, apc, ajob, asnap, ares,
                   calls, fails, wlog, rejected, nulls, lost, bo, sideVars>>

\* processJob: the PUBLISH of eventBus.publish is rejected, processJob
\* throws, and the catch block of the loop calls requestForRetry
ProcessJob_PublishRejects(w) ==
    /\ pc[w] = "publishing"
    /\ \E error \in Errors(wjob[w][1]), t \in {now, now + 1} :
         LET r == requestForRetry(wjob[w][1], error)
         IN  IF r.toDLQ
             THEN /\ t <= MaxTime
                  /\ now' = t
                  /\ dlq' = LPush(dlq, Stringify(moveToDLQ(r.job, t)))
                  /\ UNCHANGED timers
             ELSE /\ t = now
                  /\ timers' = timers (+) SetToBag({r.job})
                  /\ UNCHANGED <<dlq, now>>
    /\ pc' = [pc EXCEPT ![w] = "idle"]
    /\ wjob' = [wjob EXCEPT ![w] = Undefined]
    /\ fails' = [fails EXCEPT ![wjob[w][1].id] = @ + 1]
    /\ UNCHANGED <<queue, nextId, apc, ajob, asnap, ares, calls, delivered,
                   wlog, rejected, nulls, lost, bo, sideVars>>

\* the producer, the Layer-5 worker loops and the retry timers; a throw of
\* the channel send is the handler failure of the loop
Layer5Next ==
    \/ Notify
    \/ \E w \in Workers : Dequeue(w)
    \/ \E w \in Workers : ProcessJob_Send(w)
    \/ \E w \in Workers : HandlerFailure(w)
    \/ \E w \in Workers : ProcessJob_Publish(w)
    \/ \E w \in Workers : ProcessJob_PublishRejects(w)
    \/ TimerFire

Layer5Spec == Init /\ [][Layer5Next]_vars

\* =================================================================
\* NotificationStore: the feed (sorted set) and the unread counters (hash)
\* =================================================================
\* the feeds when the first call arrives: empty, or filled by earlier calls
FeedInit ==
    /\ queue = <<>>
    /\ dlq = <<>>
    /\ pc = [w \in Workers |-> "idle"]
    /\ wjob = [w \in Workers |-> Undefined]
    /\ timers = EmptyBag
    /\ nextId = 0
    /\ now = 1
    /\ apc = [a \in Admins |-> "idle"]
    /\ ajob = [a \in Admins |-> Undefined]
    /\ asnap = [a \in Admins |-> <<>>]
    /\ ares = [a \in Admins |-> NoResult]
    /\ calls = 0
    /\ fails = [i \in JobIds |-> 0]
    /\ delivered = [i \in JobIds |-> 0]
    /\ wlog = [w \in Workers |-> <<>>]
    /\ rejected = 0
    /\ nulls = 0
    /\ lost = {}
    /\ bo = NoCall
    /\ view = NoView
    /\ CacheIdle
    /\ BusIdle
    /\ \E n \in {0, FeedLimit - 1, FeedLimit} :
           /\ zfeed = [u \in FeedUsers |-> EarlierFeed(n)]
           /\ fttl = [u \in FeedUsers |->
                         IF n = 0 THEN Undefined ELSE Some(FeedTTL)]
    /\ hcounts = [u \in CounterUsers |-> Undefined]
    /\ scall = [c \in StoreClients |-> NoStoreCall]
    /\ scalls = 0
    /\ incs = [u \in CounterUsers |-> 0]
    /\ HttpIdle
    /\ SseIdle
    /\ SendIdle

\* addToFeed(userId, notification of job id) up to its first await: it reads
\* the clock for the score and for createdAt, both in one millisecond, and
\* sends ZADD
AddToFeed_Start(c, userId, id) ==
    /\ scall[c].pc = "idle"
    /\ scalls < MaxStoreCalls
    /\ scalls' = scalls + 1
    /\ scall' = [scall EXCEPT ![c] =
                    [op |-> "addToFeed", pc |-> "zadd", userId |-> userId,
                     score |-> clock, value |-> Some(FeedMember(id, clock)),
                     count |-> 0, result |-> Undefined]]
    /\ UNCHANGED <<zfeed, fttl, hcounts, incs>>
    /\ UNCHANGED <<queueVars, readVars, cacheVars, busVars,
                   httpVars, sseVars, sendVars>>

\* await this.redis.zadd(key, score, value)
AddToFeed_ZAdd(c) ==
    /\ scall[c].op = "addToFeed" /\ scall[c].pc = "zadd"
    /\ zfeed' = [zfeed EXCEPT ![scall[c].userId] =
                    ZAdd(@, scall[c].score, scall[c].value[1])]
    /\ scall' = [scall EXCEPT ![c].pc = "trim"]
    /\ UNCHANGED <<fttl, hcounts, scalls, incs>>
    /\ UNCHANGED <<queueVars, readVars, cacheVars, busVars,
                   httpVars, sseVars, sendVars>>

\* await this.redis.zremrangebyrank(key, 0, -101)
AddToFeed_Trim(c) ==
    /\ scall[c].op = "addToFeed" /\ scall[c].pc = "trim"
    /\ zfeed' = [zfeed EXCEPT ![scall[c].userId] =
                    ZRemRangeByRank(@, 0, TrimStop)]
    /\ scall' = [scall EXCEPT ![c].pc = "expire"]
    /\ UNCHANGED <<fttl, hcounts, scalls, incs>>
    /\ UNCHANGED <<queueVars, readVars, cacheVars, busVars,
                   httpVars, sseVars, sendVars>>

\* await this.redis.expire(key, 86400 * 30), and addToFeed returns; EXPIRE
\* of a key that does not exist does nothing
AddToFeed_Expire(c) ==
    /\ scall[c].op = "addToFeed" /\ scall[c].pc = "expire"
    /\ fttl' = [fttl EXCEPT ![scall[c].userId] =
                   IF zfeed[scall[c].userId] = <<>> THEN @ ELSE Some(FeedTTL)]
    /\ scall' = [scall EXCEPT ![c] = NoStoreCall]
    /\ UNCHANGED <<zfeed, hcounts, scalls, incs>>
    /\ UNCHANGED <<queueVars, readVars, cacheVars, busVars,
                   httpVars, sseVars, sendVars>>

\* getFeed(userId, count): ZREVRANGE key 0 count-1, every item parsed
GetFeed_ZRevRange(c, userId, count) ==
    /\ scall[c].pc = "idle"
    /\ scalls < MaxStoreCalls
    /\ scalls' = scalls + 1
    /\ LET items == ZRevRange(zfeed[userId], 0, count - 1)
       IN  scall' = [scall EXCEPT ![c] =
                        [op |-> "getFeed", pc |-> "return", userId |-> userId,
                         score |-> 0, value |-> Undefined, count |-> count,
                         result |-> Some([i \in 1..Len(items) |->
                                             ParseEntry(items[i])])]]
    /\ UNCHANGED <<zfeed, fttl, hcounts, incs>>
    /\ UNCHANGED <<queueVars, readVars, cacheVars, busVars,
                   httpVars, sseVars, sendVars>>

\* getFeed returns the parsed items to its caller
GetFeed_Return(c) ==
    /\ scall[c].op = "getFeed" /\ scall[c].pc = "return"
    /\ scall' = [scall EXCEPT ![c] = NoStoreCall]
    /\ UNCHANGED <<zfeed, fttl, hcounts, scalls, incs>>
    /\ UNCHANGED <<queueVars, readVars, cacheVars, busVars,
                   httpVars, sseVars, sendVars>>

\* the time to live of a feed key runs out: Redis deletes the key
FeedExpires(userId) ==
    /\ fttl[userId] # Undefined
    /\ zfeed' = [zfeed EXCEPT ![userId] = <<>>]
    /\ fttl' = [fttl EXCEPT ![userId] = Undefined]
    /\ UNCHANGED <<hcounts, scall, scalls, incs>>
    /\ UNCHANGED <<queueVars, readVars, cacheVars, busVars,
                   httpVars, sseVars, sendVars>>

\* incrementUnread(userId): HINCRBY unread_counts user:<userId> 1, whose
\* reply is the new value
IncrementUnread_HIncrBy(c, userId) ==
    /\ scall[c].pc = "idle"
    /\ scalls < MaxCounterCalls
    /\ scalls' = scalls + 1
    /\ hcounts' = HIncrBy(hcounts, CounterField(userId), 1)
    /\ incs' = [incs EXCEPT ![userId] = @ + 1]
    /\ scall' = [scall EXCEPT ![c] =
                    [op |-> "incrementUnread", pc |-> "return",
                     userId |-> userId, score |-> 0, value |-> Undefined,
                     count |-> 0,
                     result |->
                         Some(parseInt(HGet(hcounts', CounterField(userId))[1]))]]
    /\ UNCHANGED <<zfeed, fttl>>
    /\ UNCHANGED <<queueVars, readVars, cacheVars, busVars,
                   httpVars, sseVars, sendVars>>

\* getUnreadCount(userId): HGET, then parseInt(count || '0', 10)
GetUnreadCount_HGet(c, userId) ==
    /\ scall[c].pc = "idle"
    /\ scalls < MaxCounterCalls
    /\ scalls' = scalls + 1
    /\ LET count == HGet(hcounts, CounterField(userId))
       IN  scall' = [scall EXCEPT ![c] =
                        [op |-> "getUnreadCount", pc |-> "return",
                         userId |-> userId, score |-> 0, value |-> Undefined,
                         count |-> 0,
                         result |-> Some(parseInt(IF count = Undefined
                                                  THEN DecimalString(0)
                                                  ELSE count[1]))]]
    /\ UNCHANGED <<zfeed, fttl, hcounts, incs>>
    /\ UNCHANGED <<queueVars, readVars, cacheVars, busVars,
                   httpVars, sseVars, sendVars>>

\* markAllRead(userId): HSET unread_counts user:<userId> 0
MarkAllRead_HSet(c, userId) ==
    /\ scall[c].pc = "idle"
    /\ scalls < MaxCounterCalls
    /\ scalls' = scalls + 1
    /\ hcounts' = HSet(hcounts, CounterField(userId), 0)
    /\ incs' = [incs EXCEPT ![userId] = 0]
    /\ scall' = [scall EXCEPT ![c] =
                    [op |-> "markAllRead", pc |-> "return",
                     userId |-> userId, score |-> 0, value |-> Undefined,
                     count |-> 0, result |-> Undefined]]
    /\ UNCHANGED <<zfeed, fttl>>
    /\ UNCHANGED <<queueVars, readVars, cacheVars, busVars,
                   httpVars, sseVars, sendVars>>

\* a method of the unread counter returns to its caller
Counter_Return(c) ==
    /\ scall[c].op \in {"incrementUnread", "getUnreadCount", "markAllRead"}
    /\ scall[c].pc = "return"
    /\ scall' = [scall EXCEPT ![c] = NoStoreCall]
    /\ UNCHANGED <<zfeed, fttl, hcounts, scalls, incs>>
    /\ UNCHANGED <<queueVars, readVars, cacheVars, busVars,
                   httpVars, sseVars, sendVars>>

UnreadNext ==
    \/ \E c \in StoreClients, u \in CounterUsers :
           IncrementUnread_HIncrBy(c, u)
    \/ \E c \in StoreClients, u \in CounterUsers : GetUnreadCount_HGet(c, u)
    \/ \E c \in StoreClients, u \in CounterUsers : MarkAllRead_HSet(c, u)
    \/ \E c \in StoreClients : Counter_Return(c)

UnreadSpec == Init /\ [][UnreadNext]_vars

\* the counts getFeed is called with: GET /feed/:userId passes the count of
\* the query string, any integer but 0, or 20; the polling handlers pass 10
FeedCounts ==
    ((0 - 1)..MaxFeedCount \ {0}) \cup {PollFeedCount, DefaultFeedCount}

FeedNext ==
    \/ \E c \in StoreClients, u \in FeedUsers :
           AddToFeed_Start(c, u, scalls + 1)
    \/ \E c \in StoreClients : AddToFeed_ZAdd(c)
    \/ \E c \in StoreClients : AddToFeed_Trim(c)
    \/ \E c \in StoreClients : AddToFeed_Expire(c)
    \/ \E c \in StoreClients, u \in FeedUsers, count \in FeedCounts :
           GetFeed_ZRevRange(c, u, count)
    \/ \E c \in StoreClients : GetFeed_Return(c)
    \/ \E u \in FeedUsers : FeedExpires(u)
    \/ Tick

FeedSpec == FeedInit /\ [][FeedNext]_vars

\* ===================================================================
\* Properties
\* ===================================================================
QueueJobs == {Parse(queue[i]) : i \in 1..Len(queue)}
DLQJobs == {Parse(dlq[i]) : i \in 1..Len(dlq)}
TimerJobs == BagToSet(timers)
WorkerJobs == {wjob[w][1] : w \in {v \in Workers : wjob[v] # Undefined}}

\* number of entries of a list that carry the id
CountId(list, id) == Cardinality({i \in 1..Len(list) : Parse(list[i]).id = id})

InQueue(id) == CountId(queue, id) > 0
InDLQ(id) == CountId(dlq, id) > 0

\* worker w leaves processJob in this step, by a throw or by a return
FailureStep(w) ==
    pc[w] = "processing" /\ pc'[w] = "idle" /\ delivered' = delivered
SuccessStep(w) ==
    pc[w] = "processing" /\ pc'[w] = "idle" /\ delivered' # delivered

\* worker w's dequeue returns a job in this step
DequeueStep(w) == pc[w] = "idle" /\ pc'[w] = "processing"

\* ---------------------------------------------------------------- C1
\* every job in the main queue has 0 <= attempt <= maxAttempts
QueueAttemptsInBudget ==
    \A j \in QueueJobs : 0 <= j.attempt /\ j.attempt <= j.maxAttempts

Landed ==
    IF dlq' # dlq THEN {Parse(dlq'[1])}
    ELSE BagToSet(timers' (-) timers)

Instances == QueueJobs \cup DLQJobs \cup TimerJobs \cup WorkerJobs

NoResurrectionStep == apc' = apc /\ ares' = ares

\* C2: every handler failure increases the job's attempt by exactly 1 (one
\* requestForRetry per failure), a handler success changes no attempt, and
\* outside the resurrection operations no job's attempt decreases.
C2_AttemptMonotonic ==
    [][ /\ \A w \in Workers :
             FailureStep(w) =>
                 /\ Cardinality(Landed) = 1
                 /\ \A l \in Landed :
                        /\ l.id = wjob[w][1].id
                        /\ l.attempt = wjob[w][1].attempt + 1
                 /\ fails'[wjob[w][1].id] = fails[wjob[w][1].id] + 1
        /\ \A w \in Workers :
             SuccessStep(w) =>
                 /\ queue' = queue /\ dlq' = dlq /\ timers' = timers
                 /\ fails' = fails
                 /\ \A v \in Workers \ {w} : wjob'[v] = wjob[v]
        /\ NoResurrectionStep =>
             LET before == Instances
                 after  == Instances'
             IN  \A j2 \in after :
                     (\E j \in before : j.id = j2.id) =>
                         \E j \in before :
                             j.id = j2.id /\ j.attempt <= j2.attempt
      ]_vars

\* one job has failed twice and another has been delivered
C2_Witness ==
    \E i, k \in JobIds :
        /\ fails[i] >= 2
        /\ delivered[k] >= 1
        /\ \E j \in Instances : j.id = i /\ j.attempt = 2

\* ---------------------------------------------------------------- C4
\* C4: with several worker loops in dequeue and several jobs queued, every
\* entry that leaves the main queue is returned to exactly one dequeue
\* call: a dequeue that returns a job removes exactly the tail entry and
\* returns that entry to one worker only, and no entry leaves the queue
\* without being returned.
C4_DeliveryUniqueness ==
    [][ /\ \A w \in Workers :
             DequeueStep(w) =>
                 /\ queue # <<>>
                 /\ queue' = Front(queue)
                 /\ wjob'[w] = Some(Parse(queue[Len(queue)]))
                 /\ \A v \in Workers \ {w} :
                        pc'[v] = pc[v] /\ wjob'[v] = wjob[v]
        /\ Len(queue') < Len(queue) =>
             /\ Len(queue') = Len(queue) - 1
             /\ \E w \in Workers : DequeueStep(w)
      ]_vars

\* two workers hold two different jobs at the same time
C4_Witness ==
    \E w, v \in Workers :
        /\ w # v
        /\ pc[w] = "processing" /\ pc[v] = "processing"
        /\ wjob[w][1].id # wjob[v][1].id

\* ---------------------------------------------------------------- C9
\* C9: retryFromDLQ(id) for an id that no dead-letter entry carries returns
\* false without throwing and changes neither list, and the route answers
\* 404.
C9_NotFound ==
    [][ \A a \in Admins :
          ( /\ apc[a] = "idle" /\ apc'[a] # "idle"
            /\ ares'[a].op = "retryFromDLQ"
            /\ ~InDLQ(ares'[a].id) ) =>
              /\ apc'[a] = "respond"
              /\ ares'[a].ret = "false"
              /\ RouteStatus(ares'[a]) = 404
              /\ queue' = queue
              /\ dlq' = dlq
      ]_vars

\* a call for an unknown id has returned false while both lists hold jobs
C9_Witness ==
    \E a \in Admins :
        /\ apc[a] = "respond"
        /\ ares[a].op = "retryFromDLQ"
        /\ ares[a].ret = "false"
        /\ ~InDLQ(ares[a].id)
        /\ dlq # <<>>
        /\ queue # <<>>

\* ---------------------------------------------------------------- C3
\* C3: a dead-lettered job (attempt > maxAttempts) has exactly one entry
\* with its id in the dead-letter list and, while it is there, no entry with
\* that id in the main queue.
C3_ExactlyOnceDeadLettered ==
    \A id \in JobIds :
        InDLQ(id) => CountId(dlq, id) = 1 /\ ~InQueue(id)

\* ---------------------------------------------------------------- C5
\* the job with this id is dead-lettered: absent from the main queue, from
\* the workers and from the timers, with one dead-letter entry that has
\* this attempt, one of these messages as lastError, and failedAt set
DeadLetteredWith(id, attempt, messages) ==
    /\ ~InQueue(id)
    /\ \A j \in TimerJobs \cup WorkerJobs : j.id # id
    /\ CountId(dlq, id) = 1
    /\ \A j \in DLQJobs :
           j.id = id =>
               /\ j.attempt = attempt
               /\ j.lastError # Undefined
               /\ j.lastError[1] \in messages
               /\ j.failedAt # Undefined

\* the messages the n-th consecutive failure of a job may carry
NthErrors(n) == Errors([attempt |-> n - 1])

C7_ResurrectionResets ==
    [][ \A a \in Admins :
          (apc[a] = "one_enqueue" /\ apc'[a] = "respond") =>
              /\ ares'[a].ret = "true"
              /\ Tail(queue') = queue
              /\ Parse(queue'[1]) = NewJob(ares[a].id)
              /\ CountId(dlq', ares[a].id) = 0
      ]_vars

\* ---------------------------------------------------------------- C8
\* C8: once retryFromDLQ(id) has found a job with that id, its removal
\* takes exactly one entry out of the dead-letter list, its enqueue adds
\* exactly one entry, that job, to the main queue, and it returns true.
C8_ResurrectionMovesOne ==
    [][ \A a \in Admins :
          /\ (apc[a] = "one_lrem" /\ apc'[a] # "one_lrem") =>
                 /\ apc'[a] = "one_enqueue"
                 /\ Len(dlq') = Len(dlq) - 1
                 /\ queue' = queue
          /\ (apc[a] = "one_enqueue" /\ apc'[a] # "one_enqueue") =>
                 /\ ares'[a].ret = "true"
                 /\ Len(queue') = Len(queue) + 1
                 /\ Parse(queue'[1]).id = ares[a].id
                 /\ dlq' = dlq
      ]_vars

\* ---------------------------------------------------------------- C10
\* C10: a retryAllDLQ() that ran with no concurrent operation has returned
\* the number of jobs the dead-letter list held when it was called, has
\* left the dead-letter list empty, and has put every one of those jobs in
\* the main queue with attempt = 0 and lastError and failedAt cleared.
C10_RetryAllMovesEverything ==
    \A a \in Admins :
        (apc[a] = "respond" /\ ares[a].op = "retryAllDLQ") =>
            /\ ares[a].ret = "number"
            /\ ares[a].count = Len(asnap[a])
            /\ dlq = <<>>
            /\ \A k \in 1..Len(asnap[a]) :
                   Reset(asnap[a][k]) \in QueueJobs

\* ---------------------------------------------------------------- C11
\* the serialized form of the jobs caller a's retryAllDLQ has read
SnapshotValues(a) == {Stringify(asnap[a][k]) : k \in 1..Len(asnap[a])}

\* the entries of a dead-letter list that caller a's retryAllDLQ has not
\* read: they were appended after its read
LateArrivals(a, list) ==
    SelectSeq(list, LAMBDA s : s \notin SnapshotValues(a))

\* caller a's retryAllDLQ takes a step: its read, a step of its loop, or
\* its return
RetryAllStep(a) ==
    /\ apc'[a] # apc[a]
    /\ ares[a].op = "retryAllDLQ" \/ ares'[a].op = "retryAllDLQ"

BaseOf(a) ==
    IF a = 1 THEN 10000 ELSE IF a = 2 THEN 60000 ELSE 300000

\* C12: for every attempt a >= 1 and every value of the random jitter,
\* getBackOffDelay(a) returns a delay d with 0.8 * base <= d <= 1.2 * base,
\* where base = [10000, 60000, 300000][min(a - 1, 2)]; attempts beyond the
\* length of the table use its last entry.
C12_BackoffBounds ==
    bo.delay # Undefined =>
        /\ bo.attempt >= 1
        /\ 8 * BaseOf(bo.attempt) <= 10 * bo.delay[1]
        /\ 10 * bo.delay[1] <= 12 * BaseOf(bo.attempt)

\* getBackOffDelay has returned the smallest delay of the last table entry
\* for an attempt beyond the table
C12_Witness ==
    /\ bo.delay # Undefined
    /\ bo.attempt > Len(backOffDelays)
    /\ 10 * bo.delay[1] = 8 * BaseOf(bo.attempt)

\* ---------------------------------------------------------------- C13
\* the handler of worker w fails in this step and the incremented attempt
\* is within the budget
RetryStep(w) ==
    /\ FailureStep(w)
    /\ wjob[w][1].attempt + 1 <= wjob[w][1].maxAttempts

\* the retry timer of job t fires (or is otherwise gone) in this step
TimerGone(t) == CopiesIn(t, timers') < CopiesIn(t, timers)

C14_DurabilityGap ==
    \A id \in lost :
        /\ ~InQueue(id)
        /\ ~InDLQ(id)
        /\ \A j \in TimerJobs \cup WorkerJobs : j.id # id

\* the process went down while a timer was pending for one job; since then
\* another job has been delivered and the lost job is nowhere
C14_Witness ==
    \E id, k \in JobIds :
        /\ id \in lost
        /\ fails[id] >= 1
        /\ delivered[k] >= 1
        /\ id # k
        /\ pc[Solo] = "idle"
        /\ queue = <<>>
        /\ nextId = MaxJobs

\* ---------------------------------------------------------------- C15
\* number of jobs the handler has completed
DeliveredCount == Cardinality({i \in JobIds : delivered[i] > 0})

NoFailureSoFar == \A i \in JobIds : fails[i] = 0

\* C15: when jobs are enqueued and drained by one worker loop with no
\* handler failure, dequeue returns the jobs in the order in which they
\* were enqueued: the producer enqueues job 1, job 2, ... in this order,
\* and the k-th dequeue that returns a job returns job k.
C15_SingleConsumerFifo ==
    [][ (DequeueStep(Solo) /\ NoFailureSoFar) =>
            wjob'[Solo][1].id = DeliveredCount + 1
      ]_vars

\* with no failure so far, the first job has been delivered and the worker
\* holds the last job the producer enqueued
C15_Witness ==
    /\ NoFailureSoFar
    /\ delivered[1] = 1
    /\ pc[Solo] = "processing"
    /\ wjob[Solo][1].id = MaxJobs
    /\ DeliveredCount = MaxJobs - 1

\* ---------------------------------------------------------------- C16
\* the handler of worker w throws in this step
HandlerThrows(w) ==
    /\ pc[w] = "processing"
    /\ fails'[wjob[w][1].id] # fails[wjob[w][1].id]

\* C16: a failure thrown by the job handler never terminates the worker
\* loop. Every handler failure results in exactly one requestForRetry call
\* with the failure's message, which takes exactly one decision (one retry
\* timer or one dead-letter entry, carrying that message), and the worker
\* is back in dequeue; from there it goes on to dequeue the next job.
C16_HandlerFailureContained ==
    /\ [][ \A w \in Workers :
             HandlerThrows(w) =>
                 /\ pc'[w] = "idle"
                 /\ wjob'[w] = Undefined
                 /\ \A v \in Workers \ {w} : pc'[v] = pc[v]
                 /\ fails'[wjob[w][1].id] = fails[wjob[w][1].id] + 1
                 /\ \/ /\ Len(dlq') = Len(dlq) + 1
                       /\ timers' = timers
                    \/ /\ BagCardinality(timers') = BagCardinality(timers) + 1
                       /\ dlq' = dlq
                 /\ \A l \in Landed :
                        /\ l.id = wjob[w][1].id
                        /\ l.lastError # Undefined
                        /\ l.lastError[1] \in Errors(wjob[w][1])
         ]_vars
    /\ \A w \in Workers : (pc[w] = "processing") ~> (pc[w] = "idle")
    /\ \A w \in Workers :
           (pc[w] = "idle" /\ queue # <<>>)
               ~> (pc[w] = "processing" \/ queue = <<>>)

\* a worker handles a job after another job has failed four times and was
\* dead-lettered, while the first has itself failed and been retried
C16_Witness ==
    \E w \in Workers, i \in JobIds :
        /\ pc[w] = "processing"
        /\ wjob[w][1].id # i
        /\ fails[wjob[w][1].id] >= 1
        /\ fails[i] = DefaultMaxAttempts + 1
        /\ InDLQ(i)

\* ---------------------------------------------------------------- C17
\* the store rejects a command of the worker process in this step
StoreRejects == rejected' # rejected

\* the last line the iteration in progress of worker loop w has reported
LastLine(w) ==
    IF wlog[w] = <<>> THEN "none" ELSE wlog[w][Len(wlog[w])].line

\* C17: when a store operation of the worker (dequeue, or a store call
\* inside requestForRetry) fails, the worker loop does not terminate: it
\* reports the error and waits, and then calls dequeue again.
C17_StoreFailureSurvived ==
    /\ [][ StoreRejects =>
             /\ pc'[Solo] = "backoff"
             /\ LastLine(Solo)' = "Worker error"
         ]_vars
    /\ [][ pc[Solo] = "backoff" /\ pc'[Solo] # "backoff" =>
             pc'[Solo] = "idle"
         ]_vars
    /\ [](pc[Solo] # "crashed")

\* ---------------------------------------------------------------- C18
\* the append of moveToDLQ, called for the job of worker w, is rejected in
\* this step
DLQAppendRejected(w) ==
    /\ HandlerThrows(w)
    /\ StoreRejects
    /\ wjob[w][1].attempt + 1 > wjob[w][1].maxAttempts

\* the lines of a log that name a job, as pairs of id and message
JobLines(log) ==
    {<<log[k].id, log[k].error>> :
        k \in {n \in 1..Len(log) : log[n].line = "Job failed"}}

\* C18: a failure of the append to the dead-letter list in moveToDLQ is
\* never silent. The rejection reaches the worker loop, which ends the
\* iteration in its outer catch (report "Worker error", then the wait) and
\* not the way an ordinary handler failure ends (straight back to dequeue
\* with nothing reported by the outer catch); the job, which is then in no
\* list, with no timer and with no worker, is on record in what has been
\* reported, by its id and the message of its last failure.
C18_DeadLetterAppendFailureLoud ==
    [][ /\ DLQAppendRejected(Solo) =>
             /\ pc'[Solo] = "backoff"
             /\ LastLine(Solo)' = "Worker error"
             /\ \E e \in Errors(wjob[Solo][1]) :
                    <<wjob[Solo][1].id, e>> \in JobLines(wlog'[Solo])
             /\ dlq' = dlq /\ queue' = queue /\ timers' = timers
             /\ wjob'[Solo] = Undefined
        /\ (HandlerThrows(Solo) /\ ~StoreRejects) =>
             /\ pc'[Solo] = "idle"
             /\ LastLine(Solo)' # "Worker error"
      ]_vars

\* the append was rejected for a job that had failed four times: the worker
\* is in the wait of the outer catch, both lines are reported, and the job
\* is in neither list
C18_Witness ==
    \E id \in JobIds :
        /\ fails[id] = DefaultMaxAttempts + 1
        /\ pc[Solo] = "backoff"
        /\ LastLine(Solo) = "Worker error"
        /\ \E e \in NthErrors(DefaultMaxAttempts + 1) :
               <<id, e>> \in JobLines(wlog[Solo])
        /\ ~InQueue(id) /\ ~InDLQ(id)

\* ---------------------------------------------------------------- C19
\* a dequeue call of some worker returns null in this step
ReturnsNull == nulls' # nulls

\* C19: dequeue(timeout) with a positive timeout returns the oldest job,
\* the tail entry of the main queue, whenever the queue holds one: it
\* returns null only when the queue is empty. A null return is not an
\* error: the worker stays in its loop, nothing is reported and no store
\* command is rejected; and it changes neither list.
C19_DequeueTimeout ==
    [][ /\ ReturnsNull =>
             /\ queue = <<>>
             /\ queue' = queue
             /\ dlq' = dlq
             /\ pc' = pc
             /\ wjob' = wjob
             /\ wlog' = wlog
             /\ rejected' = rejected
             /\ timers' = timers
        /\ \A w \in Workers :
             DequeueStep(w) =>
                 /\ queue # <<>>
                 /\ wjob'[w] = Some(Parse(queue[Len(queue)]))
                 /\ \A k \in 1..(Len(queue) - 1) : queue'[k] = queue[k]
                 /\ Len(queue') = Len(queue) - 1
                 /\ nulls' = nulls
      ]_vars

\* a dequeue has returned null on an empty queue while the dead-letter list
\* holds a job, and a later dequeue has returned a job
C19_Witness ==
    /\ nulls = MaxTimeouts
    /\ dlq # <<>>
    /\ \E w \in Workers : pc[w] = "processing"

\* ---------------------------------------------------------------- C20
\* the job handed on by an enqueue is the new head of the main queue, every
\* entry the queue held is still there, in the same order behind it, and
\* the dead-letter list is as it was
EnqueuedAtHead(id) ==
    /\ Len(queue') = Len(queue) + 1
    /\ Parse(queue'[1]).id = id
    /\ \A k \in 1..Len(queue) : queue'[k + 1] = queue[k]
    /\ dlq' = dlq

\* C20: enqueue(job) increases the length of the main queue by exactly 1,
\* inserts the job at the head, which is the end opposite to the tail that
\* dequeue pops, and leaves the dead-letter list and every other queued job
\* unchanged. This holds for each caller of enqueue: POST /notify, the
\* retry timer and retryFromDLQ; and the main queue grows in no other way.
C20_EnqueueFrame ==
    [][ /\ nextId' # nextId => EnqueuedAtHead(nextId')
        /\ \A t \in TimerJobs : TimerGone(t) => EnqueuedAtHead(t.id)
        /\ \A a \in Admins :
             (apc[a] = "one_enqueue" /\ apc'[a] # "one_enqueue") =>
                 EnqueuedAtHead(ares[a].id)
        /\ Len(queue') > Len(queue) =>
             /\ Len(queue') = Len(queue) + 1
             /\ Tail(queue') = queue
             /\ dlq' = dlq
        /\ Len(queue') < Len(queue) =>
             \A k \in 1..Len(queue') : queue'[k] = queue[k]
      ]_vars

\* a job that failed was enqueued again in front of a job that was already
\* waiting for its first run
C20_Witness ==
    /\ Len(queue) >= 2
    /\ Parse(queue[1]).lastError # Undefined
    /\ Parse(queue[Len(queue)]).lastError = Undefined

\* One worker process and the dead-letter routes, one call at a time: while
\* a call of a dead-letter route is in progress only that call takes steps.
SoloSeqNext ==
    \/ ~InCall /\ SoloNext
    \/ ~InCall /\ \E a \in Admins : RetryFromDLQ_Find(a)
    \/ ~InCall /\ \E a \in Admins : RetryAllDLQ_Read(a)
    \/ \E a \in Admins : RetryFromDLQ_LRem(a)
    \/ \E a \in Admins : RetryFromDLQ_Enqueue(a)
    \/ \E a \in Admins : RetryAllDLQ_Loop(a)
    \/ \E a \in Admins : Respond(a)

SoloSeqSpec == Init /\ [][SoloSeqNext]_vars

\* ---------------------------------------------------------------------
\* the job id is nowhere: in no list, on no timer, in no worker's hands
Discarded(id) ==
    /\ ~InQueue(id)
    /\ ~InDLQ(id)
    /\ \A j \in TimerJobs \cup WorkerJobs : j.id # id

C22_FailedAtOnlyInDLQ ==
    /\ \A j \in QueueJobs \cup TimerJobs \cup WorkerJobs :
           j.failedAt = Undefined
    /\ \A j \in DLQJobs : j.failedAt # Undefined

\* one job is dead, the other was dead-lettered, resurrected and waits in
\* the main queue with a clean slate
C22_Witness ==
    /\ \E j \in DLQJobs : j.failedAt # Undefined
    /\ \E a \in Admins, j \in QueueJobs :
           /\ ares[a].ret = "true"
           /\ ares[a].id = j.id
           /\ j.attempt = 0
           /\ j.failedAt = Undefined

\* ---------------------------------------------------------------------
\* the fields no queue operation is meant to write
Immutable(job) ==
    [id |-> job.id, type |-> job.type, channel |-> job.channel,
     userId |-> job.userId, payload |-> job.payload,
     createdAt |-> job.createdAt, maxAttempts |-> job.maxAttempts]

\* the jobs a dead-letter route holds between its store calls
AdminJobs ==
    {ajob[a][1] : a \in {b \in Admins : ajob[b] # Undefined}}
        \cup UNION {{asnap[a][i] : i \in 1..Len(asnap[a])} : a \in Admins}

\* C23: id, type, channel, userId, payload, createdAt and maxAttempts of a
\* job are never changed: wherever a job is (either list, a retry timer, a
\* worker, a dead-letter route) these fields are the ones it was created
\* with; requestForRetry writes attempt and lastError only (a job on a
\* retry timer has failedAt unset and a lastError), moveToDLQ writes
\* failedAt only (a dead job keeps the attempt and lastError its last
\* requestForRetry gave it), and a resurrected job differs from a new one
\* in nothing
C23_ImmutableFields ==
    /\ \A j \in Instances \cup AdminJobs :
           Immutable(j) = Immutable(NewJob(j.id))
    /\ \A j \in TimerJobs :
           /\ j.failedAt = Undefined
           /\ j.attempt \in 1..j.maxAttempts
           /\ j.lastError \in {Some(e) : e \in NthErrors(j.attempt)}
    /\ \A j \in DLQJobs :
           /\ j.attempt = j.maxAttempts + 1
           /\ j.lastError \in {Some(e) : e \in NthErrors(j.attempt)}
    /\ \A a \in Admins :
           (apc[a] = "respond" /\ ares[a].ret = "true" /\ ajob[a] # Undefined)
               => ajob[a][1] = NewJob(ares[a].id)

\* job 2 went through requestForRetry, moveToDLQ and a resurrection and is
\* back in the main queue while job 1 is dead
C23_Witness ==
    /\ \E j \in DLQJobs : j.id = 1 /\ j.channel = "email"
    /\ \E a \in Admins :
           /\ apc[a] = "respond"
           /\ ares[a].ret = "true"
           /\ ares[a].id = 2
    /\ \E j \in QueueJobs : j.id = 2 /\ j.channel = "sms" /\ j.createdAt = 2

\* ---------------------------------------------------------------------
\* C24: getDLQ() returns every job of the dead-letter list, one per entry,
\* the most recently dead-lettered first (failedAt never increases along
\* the result), and dlqSize() is the number of jobs getDLQ() returns in the
\* same state
C24_DLQListing ==
    LET jobs == getDLQ(dlq)
    IN  /\ dlqSize(dlq) = Len(jobs)
        /\ \A i \in 1..Len(dlq) : Stringify(jobs[i]) = dlq[i]
        /\ {jobs[i] : i \in 1..Len(jobs)} = DLQJobs
        /\ \A i, j \in 1..Len(jobs) :
               i < j => jobs[i].failedAt[1] >= jobs[j].failedAt[1]

\* two dead jobs, the one that died later is listed first
C24_Witness ==
    /\ dlqSize(dlq) = 2
    /\ getDLQ(dlq)[1].failedAt[1] > getDLQ(dlq)[2].failedAt[1]

\* ---------------------------------------------------------------------
\* the i-th most recently created of the jobs POST /notify has created when
\* n of them wait in the queue
RecentJob(n, i) == NewJob(n + 1 - i)

RECURSIVE NextDequeued(_, _)
NextDequeued(list, n) ==
    IF n = 0 \/ dequeue(list).job = Undefined THEN <<>>
    ELSE <<dequeue(list).job[1]>> \o NextDequeued(dequeue(list).rest, n - 1)

JobsOf(jobs) == {jobs[i] : i \in 1..Len(jobs)}

\* C29: the pendingJobs of GET /queue/stats, peek(5), are the jobs the next
\* 5 dequeue calls would return (compared as sets, whatever their order),
\* and the call removes none of them
C29_PeekIsNextToDequeue ==
    [][ view'.op = "stats" =>
            /\ JobsOf(view'.jobs) = JobsOf(NextDequeued(queue, PeekCount))
            /\ queue' = queue ]_vars

\* ---------------------------------------------------------------------
\* caller c's cacheThrough learns the outcome of its cacheGet in this step
CacheGetStep(c) == req[c].pc = "cacheGet" /\ req'[c].pc # "cacheGet"

\* the value cacheSet stored for the user's key is still there: its TTL has
\* not run out and no cacheDelete has removed it
Stored(u) == kv[CacheKey(PrefsKey(u))] # Undefined
StoredValue(u) == Some(ParsePrefs(kv[CacheKey(PrefsKey(u))][1]))

\* C26: cache-aside: once a cacheThrough call has missed and stored its
\* value, a later cacheThrough call for the same key, one that arrives and
\* reads the cache while the value is stored (TTL not expired, no
\* cacheDelete), returns the stored value and does not invoke computeFn
C26_CacheAside ==
    [][ \A c \in Clients :
            (CacheGetStep(c) /\ req[c].warm /\ Stored(req[c].userId)) =>
                /\ computes' = computes
                /\ req'[c].pc = "idle"
                /\ req'[c].value = StoredValue(req[c].userId)
      ]_vars

\* ---------------------------------------------------------------------
\* the route answers caller c's GET /prefs in this step
GetAnswerStep(c) ==
    req[c].op = "get" /\ req[c].pc # "idle" /\ req'[c].pc = "idle"

Invocations(i) == Cardinality({l \in 1..Len(tasks) : Len(tasks[l]) >= i})

\* every listener's loop over the handlers has ended
Dispatched ==
    /\ event # Undefined
    /\ \A l \in 1..Len(tasks) :
           Len(tasks[l]) = Len(handlers[DeliveredChannel][1])

\* C27: the message listener is installed only once however many handlers
\* are registered, so every handler registered for the channel is invoked
\* exactly once for each event that is dispatched; with the three
\* subscribers of registerSubscribers one delivered notification adds one
\* feed entry and increments the user's unread count by exactly 1
C27_FanOutOnce ==
    /\ listeners <= 1
    /\ \A i \in 1..Len(Subscribers) : Invocations(i) <= 1
    /\ Dispatched => \A i \in 1..Len(Subscribers) : Invocations(i) = 1
    /\ \A u \in 1..MaxEvents :
           /\ unread[u] <= 1
           /\ Cardinality(feed[u]) <= 1
    /\ (Dispatched /\ throws = 0) =>
           LET u == ParseEvent(event[1]).userId
           IN  unread[u] = 1 /\ Cardinality(feed[u]) = 1

\* ---------------------------------------------------------------------
\* listener l's loop has invoked one more handler in this step
InvokeStep(l) ==
    /\ event' = event
    /\ l \in 1..Len(tasks)
    /\ tasks'[l] # tasks[l]

\* the number of listeners whose invocation of the handler h did not throw
Handled(h) ==
    Cardinality({l \in 1..Len(tasks) :
        \E i \in 1..Len(tasks[l]) :
            Subscribers[i] = h /\ tasks[l][i] = "ok"})

\* C28: subscriber isolation: a handler that throws ends neither the
\* listener's loop nor the subscription: the loop goes on with the next
\* handler, so when it ends every handler registered on the channel has
\* been invoked for the event and every one that did not throw has had its
\* effect; the listeners, the handlers and the subscription are as before,
\* and the next event is dispatched to every listener
C28_SubscriberIsolation ==
    [][ /\ \A l \in 1..MaxListeners :
               InvokeStep(l) =>
                   /\ Len(tasks'[l]) = Len(tasks[l]) + 1
                   /\ SubSeq(tasks'[l], 1, Len(tasks[l])) = tasks[l]
                   /\ tasks'[l][Len(tasks'[l])] \in {"ok", "threw"}
                   /\ listeners' = listeners
                   /\ handlers' = handlers
                   /\ subscribed' = subscribed
        /\ Dispatched' =>
               LET u == ParseEvent(event'[1]).userId
               IN  /\ \A l \in 1..Len(tasks') :
                          /\ Len(tasks'[l]) = Len(Subscribers)
                          /\ \A i \in 1..Len(tasks'[l]) :
                                 tasks'[l][i] \in {"ok", "threw"}
                   /\ unread'[u] = Handled("unread")'
                   /\ (Handled("feed")' > 0) = (feed'[u] # {})
        /\ (published' = published + 1 /\ DeliveredChannel \in subscribed) =>
               /\ event' # Undefined
               /\ Len(tasks') = listeners
               /\ listeners >= 1 ]_vars

\* the first handler threw in one listener's loop and the loop still invoked
\* the second and the third, which did their work
C28_Witness ==
    /\ Dispatched
    /\ \E l \in 1..Len(tasks) : tasks[l] = <<"threw", "ok", "ok">>
    /\ unread[ParseEvent(event[1]).userId] = Len(tasks)

\* --------------------------------------------------------------- C31
\* caller c's addToFeed returns at this step
AddToFeedReturns(c) ==
    /\ scall[c].op = "addToFeed"
    /\ scall[c].pc = "expire"
    /\ scall'[c] = NoStoreCall

\* caller c's addToFeed trims the feed at this step
TrimStep(c) ==
    /\ scall[c].op = "addToFeed"
    /\ scall[c].pc = "trim"
    /\ scall'[c].pc = "expire"

\* the calls of addToFeed for the user that have added their entry and
\* have not trimmed yet
Untrimmed(userId) ==
    {c \in StoreClients :
        /\ scall[c].op = "addToFeed"
        /\ scall[c].pc = "trim"
        /\ scall[c].userId = userId}

\* the elements of a sorted set
Elements(zset) == {zset[i] : i \in 1..Len(zset)}

\* a trim keeps the entries with the highest scores, at most FeedLimit
KeepsLatest(before, after) ==
    /\ Elements(after) \subseteq Elements(before)
    /\ Len(after) = IF Len(before) > FeedLimit THEN FeedLimit
                    ELSE Len(before)
    /\ \A x \in Elements(before) \ Elements(after) :
           \A y \in Elements(after) : x.score <= y.score

\* a result of getFeed: at most count entries of the feed, none of them
\* older than an entry left out, newest first
NewestFirst(zset, entries, count) ==
    LET scores == [i \in 1..Len(entries) |->
                      (CHOOSE x \in Elements(zset) :
                           ParseEntry(x.member) = entries[i]).score]
        left == {x \in Elements(zset) :
                    \A i \in 1..Len(entries) :
                        entries[i] # ParseEntry(x.member)}
    IN  /\ Len(entries) <= count
        /\ \A i \in 1..Len(entries) :
               \E x \in Elements(zset) : ParseEntry(x.member) = entries[i]
        /\ \A i \in 1..(Len(entries) - 1) : scores[i] >= scores[i + 1]
        /\ entries # <<>> =>
               \A x \in left : x.score <= scores[Len(entries)]

\* C31 as stated: when a call of addToFeed returns, the user's feed holds at
\* most 100 entries; the trim keeps the entries with the highest timestamps;
\* every result of getFeed(userId, count) has at most count entries, newest
\* first.
C31_FeedBound ==
    [][ /\ \A c \in StoreClients :
             AddToFeedReturns(c) =>
                 Len(zfeed'[scall[c].userId]) <= FeedLimit
        /\ \A c \in StoreClients :
             TrimStep(c) =>
                 KeepsLatest(zfeed[scall[c].userId], zfeed'[scall[c].userId])
        /\ \A c \in StoreClients :
             (scall'[c].op = "getFeed" /\ scall[c].op = "none") =>
                 NewestFirst(zfeed[scall'[c].userId], scall'[c].result[1],
                             scall'[c].count)
      ]_vars

\* C31, amended: a user's feed holds at most 100 entries and one more for
\* every call of addToFeed that has added its entry and not trimmed yet (so
\* at most 100 when no such call is in progress); every trim keeps the
\* entries with the highest scores, at most 100; every result of
\* getFeed(userId, count) with count >= 1 has at most count entries, newest
\* first.
C31_FeedBoundBetweenCalls ==
    [][ /\ \A u \in FeedUsers :
             Len(zfeed'[u]) <= FeedLimit + Cardinality(Untrimmed(u)')
        /\ \A c \in StoreClients :
             TrimStep(c) =>
                 KeepsLatest(zfeed[scall[c].userId], zfeed'[scall[c].userId])
        /\ \A c \in StoreClients :
             (/\ scall'[c].op = "getFeed"
              /\ scall[c].op = "none"
              /\ scall'[c].count >= 1) =>
                 NewestFirst(zfeed[scall'[c].userId], scall'[c].result[1],
                             scall'[c].count)
      ]_vars

\* a call of addToFeed is about to return while the feed holds 101 entries,
\* the oldest of the 100 earlier entries trimmed away
C31_Witness ==
    \E c \in StoreClients :
        /\ scall[c].op = "addToFeed" /\ scall[c].pc = "expire"
        /\ Len(zfeed[scall[c].userId]) = FeedLimit + 1
        /\ zfeed[scall[c].userId][1].score > 0 - FeedLimit

\* --------------------------------------------------------------- C32
\* what getUnreadCount(userId) returns in this state
UnreadCount(userId) ==
    IF HGet(hcounts, CounterField(userId)) = Undefined THEN 0
    ELSE parseInt(HGet(hcounts, CounterField(userId))[1])

\* caller c calls the method for the user at this step
CallStep(c, op, userId) ==
    /\ scall[c].op = "none"
    /\ scall'[c].op = op
    /\ scall'[c].userId = userId

\* C32: every incrementUnread(u), however the calls of concurrent workers
\* interleave, raises getUnreadCount(u) by exactly 1 and returns the new
\* value, so that the count is the number of increments since the last
\* markAllRead(u) (0 for a user never incremented, 0 after markAllRead(u));
\* getUnreadCount returns that count; no call changes another user's
\* counter.
C32_UnreadCounter ==
    [][ \A u \in CounterUsers :
          /\ UnreadCount(u)' = incs'[u]
          /\ \A c \in StoreClients :
               /\ CallStep(c, "incrementUnread", u) =>
                      /\ UnreadCount(u)' = UnreadCount(u) + 1
                      /\ scall'[c].result = Some(UnreadCount(u) + 1)
               /\ CallStep(c, "markAllRead", u) => UnreadCount(u)' = 0
               /\ CallStep(c, "getUnreadCount", u) =>
                      scall'[c].result = Some(UnreadCount(u))
               /\ (scall'[c] # scall[c] /\ scall'[c].userId # u) =>
                      hcounts'[CounterField(u)] = hcounts[CounterField(u)]
      ]_vars

\* two workers have incremented one user's counter at the same time, after a
\* markAllRead of that user, while another user's counter was never touched
C32_Witness ==
    \E u, v \in CounterUsers :
        /\ u # v
        /\ incs[u] = 2
        /\ scalls = 4
        /\ \A c \in StoreClients :
               /\ scall[c].op = "incrementUnread"
               /\ scall[c].userId = u
        /\ hcounts[CounterField(v)] = Undefined

\* --------------------------------------------------------------- C33
\* the ids of the jobs in the main queue
QueuedIds == {Parse(queue[i]).id : i \in 1..Len(queue)}

\* caller p's request is answered at this step
AnswerStep(p) == post[p].pc # "answered" /\ post'[p].pc = "answered"

\* C33: a request without userId or channel is answered 400 and enqueues
\* nothing; any other request enqueues exactly one job, with a fresh id,
\* attempt 0 and maxAttempts 3, and is answered 202 once the job is in the
\* queue.
C33_NotifyRoute ==
    [][ \A p \in Producers :
          /\ AnswerStep(p) =>
               IF MissingField(post'[p].body[1])
               THEN /\ post'[p].status = 400
                    /\ post'[p].job = Undefined
                    /\ queue' = queue
               ELSE /\ post'[p].status = 202
                    /\ post'[p].job # Undefined
                    /\ Cardinality({i \in 1..Len(queue') :
                           Parse(queue'[i]).id = post'[p].job[1].id}) = 1
          /\ (post[p].pc = "enqueue" /\ post'[p].pc = "answer") =>
               /\ ~MissingField(post[p].body[1])
               /\ post[p].job[1].id \notin QueuedIds
               /\ post[p].job[1].attempt = 0
               /\ post[p].job[1].maxAttempts = 3
               /\ queue' = LPush(queue, Stringify(post[p].job[1]))
          /\ queue' # queue =>
               \E q \in Producers : post[q].pc = "enqueue" /\ post'[q] # post[q]
      ]_vars

\* --------------------------------------------------------------- C34
\* C34: every connection in a user's array of SSE clients is open: a
\* connection is added when it connects and removed, its heartbeat stopped,
\* when it disconnects, also when it disconnects while sseStream awaits the
\* unread count; so no write goes to a closed connection.
C34_SseRegistryLive ==
    /\ \A u \in SseUsers :
           \A i \in 1..Len(ClientsOf(sseClients, u)) :
               sse[ClientsOf(sseClients, u)[i]].open
    /\ \A k \in Conns : sse[k].heartbeat => sse[k].open
    /\ \A k \in Conns :
           sse[k].pc = "streaming" /\ sse[k].open =>
               \E i \in 1..Len(ClientsOf(sseClients, sse[k].userId)) :
                   ClientsOf(sseClients, sse[k].userId)[i] = k
    /\ wroteClosed = {}

\* --------------------------------------------------------------- C35
\* C35: every job in the dead-letter list has attempt = maxAttempts + 1,
\* which is the number of handler failures it has had since it was created
\* (with attempt 0) or put back by a resurrection, its lastError is a message
\* of the last of these failures, and its failedAt is set, to a reading of
\* the clock
C35_DeadLetterInvariant ==
    \A i \in 1..Len(dlq) :
        LET j == Parse(dlq[i])
        IN  /\ j.attempt = j.maxAttempts + 1
            /\ fails[j.id] = j.attempt
            /\ j.lastError # Undefined
            /\ j.lastError[1] \in NthErrors(fails[j.id])
            /\ j.failedAt # Undefined
            /\ j.failedAt[1] \in 1..now

\* both jobs are dead after a call of a dead-letter route: job 1, created
\* first, died last, at a later reading of the clock than job 2
C35_Witness ==
    /\ Len(dlq) = 2
    /\ calls > 0
    /\ Parse(dlq[1]).id = 1
    /\ Parse(dlq[1]).failedAt[1] > Parse(dlq[2]).failedAt[1]
    /\ fails[1] = DefaultMaxAttempts + 1

\* --------------------------------------------------------------- C36
\* C36: when resurrection calls for one dead-lettered job overlap, the job
\* is enqueued once at most: the main queue never holds two entries with
\* one id, and a call whose removal took nothing out of the dead-letter
\* list does not go on to enqueue.
C36_ResurrectedOnce ==
    [][ /\ \A id \in JobIds : CountId(queue', id) <= 1
        /\ \A a \in Admins :
             (apc[a] \in {"one_lrem", "all_lrem"} /\ dlq' = dlq) =>
                 apc'[a] \notin {"one_enqueue", "all_enqueue"}
      ]_vars

\* --------------------------------------------------------------- C37
\* the places a job id is in: entries of the main queue, workers holding it,
\* pending retry timers, resurrection calls between their removal and their
\* enqueue, entries of the dead-letter list, handler successes
HoldersOf(id) ==
    {w \in Workers : wjob[w] # Undefined /\ wjob[w][1].id = id}

TimersOf(id) ==
    BagCardinality([t \in {u \in BagToSet(timers) : u.id = id} |-> timers[t]])

CallsHolding(id) ==
    {a \in Admins :
        \/ apc[a] = "one_enqueue" /\ ajob[a][1].id = id
        \/ apc[a] = "all_enqueue" /\ asnap[a][ares[a].count + 1].id = id}

PlacesOf(id) ==
    CountId(queue, id) + Cardinality(HoldersOf(id)) + TimersOf(id)
        + Cardinality(CallsHolding(id)) + CountId(dlq, id) + delivered[id]

\* C37: with at most one resurrection call in progress, every job id
\* enqueued so far is at every moment in exactly one place: one entry of the
\* main queue, one worker, one retry timer, the resurrection call, one entry
\* of the dead-letter list, or delivered; an id not yet enqueued is nowhere.
C37_JobConservation ==
    \A id \in JobIds : PlacesOf(id) = (IF id <= nextId THEN 1 ELSE 0)

\* a resurrection call holds the job it took out of the dead-letter list
\* while a worker holds the other job, which a retry timer has enqueued again
C37_Witness ==
    /\ \E a \in Admins : apc[a] = "one_enqueue"
    /\ \E w \in Workers : pc[w] = "processing" /\ wjob[w][1].attempt > 0

\* --------------------------------------------------------------- C38
\* worker w leaves eventBus.publish by a rejection in this step
PublishFailureStep(w) ==
    pc[w] = "publishing" /\ pc'[w] = "idle" /\ delivered' = delivered

\* C38: in the Layer-5 worker a failure of eventBus.publish after a
\* successful channel send does not route the job into requestForRetry (no
\* retry timer is started, nothing is dead-lettered), and no job's
\* notification is sent more than once.
C38_SentOnce ==
    [][ /\ \A w \in Workers :
             PublishFailureStep(w) => timers' = timers /\ dlq' = dlq
        /\ \A id \in JobIds : sent'[id] <= 1
      ]_vars

\* --------------------------------------------------------------- C39
\* the store rejects, in this step, a command the worker loop did not issue:
\* the lpush of the enqueue of a retry timer's callback
TimerEnqueueRejected ==
    /\ StoreRejects
    /\ ~(pc[Solo] # "backoff" /\ pc'[Solo] = "backoff")

\* the ids of the jobs that are in a list or await a retry timer
KeptIds == {j.id : j \in QueueJobs \cup DLQJobs \cup TimerJobs}

\* C39: when the store rejects the enqueue of a retry timer that fires, the
\* failure is handled: every job that awaited a retry timer is still kept
\* (on a timer to try again, in the main queue or in the dead-letter list)
\* and the worker process goes on.
C39_DelayedEnqueueFailureHandled ==
    [][ TimerEnqueueRejected =>
            /\ TimerIds(timers) \subseteq KeptIds'
            /\ pc'[Solo] # "crashed"
      ]_vars

\* --------------------------------------------------------------- C40
\* C40: requestForRetry calls getBackOffDelay only with an attempt from 1 to
\* maxAttempts: whatever job a worker holds and whatever its handler throws,
\* the index min(attempt - 1, 2) into the backoff table is one of 0, 1, 2 and
\* the delay is a positive number for every value of the jitter.
C40_BackOffArgInRange ==
    \A w \in Workers :
        pc[w] = "processing" =>
            \A error \in Errors(wjob[w][1]) :
                LET arg == BackOffArg(wjob[w][1], error)
                IN  arg # Undefined =>
                        /\ arg[1] >= 1
                        /\ arg[1] <= wjob[w][1].maxAttempts
                        /\ BackOffIndex(arg[1]) \in 0..2
                        /\ \A random \in 0..(RandomSteps - 1) :
                               getBackOffDelay(arg[1], random) > 0

\* after a call of a dead-letter route the worker holds a job whose next
\* failure hands maxAttempts to getBackOffDelay (index 2, the last entry)
C40_Witness ==
    /\ calls > 0
    /\ pc[Solo] = "processing"
    /\ \E error \in Errors(wjob[Solo][1]) :
         /\ BackOffArg(wjob[Solo][1], error) = Some(DefaultMaxAttempts)
         /\ BackOffIndex(DefaultMaxAttempts) = 2
====
